---- MODULE Spec2Model ----
(***************************************************************************)
(* TETRA base-station PDU codec: the delimiter, Type-2, Type-3 and Type-4  *)
(* element codecs of src/common/typed_pdu_fields.rs and the PDU parsers    *)
(* and serializers built on them.                                          *)
(*                                                                         *)
(* A bit buffer is a sequence of 0/1 and a cursor `pos` (bits consumed).   *)
(* Option<T> is the empty tuple (None) or a one-element tuple (Some).      *)
(* Every codec function is an operator from the buffer and the cursor to   *)
(* an outcome record; an action applies one function to the state.         *)
(***************************************************************************)
EXTENDS Integers, Sequences, FiniteSets, TLC

VARIABLES
    buf,     \* the bits of the buffer under decode or encode
    pos,     \* the buffer's cursor: number of bits already consumed
    mode,    \* "fixed" (from_bitstr, decode) or "auto" (new_autoexpand, encode)
    build,   \* "debug" (overflow checks on) or "release" (wrapping arithmetic)
    res,     \* outcome of the last operation
    out,     \* bits written by to_bitbuf into a second, auto-expanding buffer
    nwrites, \* number of write calls made on the auto-expanding buffer
    tx_pdu,  \* the PDU structure handed to to_bitbuf
    stack,   \* run_stack: its position, its argument num_ticks and its counter ticks
    router,  \* the MessageRouter: its message queue and the calls it has received
    clients, \* MmClientMgr.clients: the state stored for each known ssi
    INIT_LOG,   \* the Once of common/debug.rs
    threads,    \* the position of each thread that sets up logging
    subscriber  \* the global tracing subscriber: the filters it was initialised with

vars == <<buf, pos, mode, build, res, out, nwrites,
          tx_pdu, stack, router, clients, INIT_LOG, threads, subscriber>>

\* The parts of the program a specification does not run keep their
\* variables as they are.
pduVars == <<tx_pdu>>
stackVars == <<stack, router>>
clientVars == <<clients>>
loggingVars == <<INIT_LOG, threads, subscriber>>
bufferVars == <<buf, pos, mode, build, out, nwrites>>

----------------------------------------------------------------------------
(* Bounds of the model *)

\* Largest Type-2 width that the codec-level actions use.
MaxWidth == 2
\* Largest number of write calls on the auto-expanding buffer.
MaxWrites == 2
\* Largest number of items in a received codec-level frame.
MaxItems == 2

----------------------------------------------------------------------------
(* Bit strings *)

RECURSIVE Pow2(_)
Pow2(n) == IF n = 0 THEN 1 ELSE 2 * Pow2(n - 1)

\* The w low bits of v, most significant bit first.
RECURSIVE Bits(_, _)
Bits(v, w) == IF w = 0 THEN <<>> ELSE Bits(v \div 2, w - 1) \o <<v % 2>>

\* The unsigned value of a bit string, most significant bit first.
RECURSIVE Val(_)
Val(s) == IF s = <<>> THEN 0 ELSE 2 * Val(SubSeq(s, 1, Len(s) - 1)) + s[Len(s)]

None == <<>>
Some(v) == <<v>>
\* The state of the parts of the program that have not been started.
NoPdu == tx_pdu = <<>>
NoStack == stack = <<>> /\ router = <<>>
NoClients == clients = <<>>
NoLogging == INIT_LOG = "incomplete" /\ threads = <<>> /\ subscriber = <<>>

IsSome(o) == o # <<>>

----------------------------------------------------------------------------
(* Outcomes *)

\* kind: "Ok", "Err" or "Panic"; err and field describe an Err; val is the
\* Ok value as a tuple; pos is the cursor after the call.
Outcome(kind, err, field, val, p) ==
    [kind |-> kind, err |-> err, field |-> field, val |-> val, pos |-> p]

Ok(val, p) == Outcome("Ok", "", "", val, p)
Err(err, field, p) == Outcome("Err", err, field, <<>>, p)
Panic(p) == Outcome("Panic", "", "", <<>>, p)

----------------------------------------------------------------------------
(* BitBuffer (src/common/bitbuffer.rs is not part of the sources; modelled   *)
(* from the specification, section 4.1)                                      *)

\* Largest width of one read: the value is returned in a u64.
MaxFieldBits == 64

\* peek_bits_posoffset(offset, w): Option<u64>, never moves the cursor.
peek_bits_posoffset(b, p, offset, w) ==
    IF p + offset + w <= Len(b)
    THEN Some(Val(SubSeq(b, p + offset + 1, p + offset + w)))
    ELSE None

\* peek_bits looking one bit past the cursor.
peek_bits_Ahead(b, p, w) == peek_bits_posoffset(b, p, 1, w)

\* peek_bits(w)
peek_bits(b, p, w) == peek_bits_posoffset(b, p, 0, w)

\* seek_rel(delta): the cursor moves by delta, nothing is read.
seek_rel(p, delta) == p + delta

\* read_bits(w): Option<u64> with the cursor after the read.  Fewer than w
\* bits remaining is None, whatever w; w bits that do not fit the u64
\* returned are a violated precondition (a panic).
read_bits(b, p, w) ==
    IF p + w > Len(b) THEN Ok(None, p)
    ELSE IF w > MaxFieldBits THEN Panic(p)
    ELSE Ok(Some(Val(SubSeq(b, p + 1, p + w))), p + w)

\* read_field(w, name): Result<u64, PduParseError>
read_field(b, p, w, name) ==
    IF p + w > Len(b) THEN Err("BufferEnded", name, p)
    ELSE IF w > MaxFieldBits THEN Panic(p)
    ELSE Ok(<<Val(SubSeq(b, p + 1, p + w))>>, p + w)

\* write_bits(value, w) and write_bit(value): append to the buffer.
write_bits(b, v, w) == b \o Bits(v, w)
write_bit(b, v) == b \o Bits(v, 1)

----------------------------------------------------------------------------
(* delimiters *)

\* The ? operator on a Result: an error (or a panic) returns at once, the
\* value goes on.
Try(r, K(_)) == IF r.kind # "Ok" THEN r ELSE K(r)

ReadDelimiter(b, p, name) ==
    Try(read_field(b, p, 1, name),
        LAMBDA r: Ok(<<IF r.val[1] = 1 THEN 1 ELSE 0>>, r.pos))

\* read_mbit reporting the name of the o-bit.
read_mbit_NamedObit(b, p) == ReadDelimiter(b, p, "obit")

read_obit(b, p) == ReadDelimiter(b, p, "obit")
read_pbit(b, p) == ReadDelimiter(b, p, "pbit")
read_mbit(b, p) == ReadDelimiter(b, p, "mbit")

write_obit(b, v) == write_bit(b, v)
write_pbit(b, v) == write_bit(b, v)
write_mbit(b, v) == write_bit(b, v)

----------------------------------------------------------------------------
(* type2 *)

\* type2::parse leaving a p-bit 0 unconsumed.
type2_parse_PbitPeeked(b, p, num_bits, field_name) ==
    Try(read_pbit(b, p),
        LAMBDA pb: IF pb.val[1] = 1
                   THEN Try(read_field(b, pb.pos, num_bits, field_name),
                            LAMBDA v: Ok(Some(v.val[1]), v.pos))
                   ELSE Ok(None, p))

\* type2::parse putting the p-bit back when the value cannot be read.
type2_parse_Atomic(b, p, num_bits, field_name) ==
    LET r == Try(read_pbit(b, p),
                 LAMBDA pb: IF pb.val[1] = 1
                            THEN Try(read_field(b, pb.pos, num_bits, field_name),
                                     LAMBDA v: Ok(Some(v.val[1]), v.pos))
                            ELSE Ok(None, pb.pos))
    IN  IF r.kind = "Err" THEN [r EXCEPT !.pos = p] ELSE r

\* type2::parse: the Ok value is the Option<u64> itself.
type2_parse(b, p, num_bits, field_name) ==
    Try(read_pbit(b, p),
        LAMBDA pb: IF pb.val[1] = 1
                   THEN Try(read_field(b, pb.pos, num_bits, field_name),
                            LAMBDA v: Ok(Some(v.val[1]), v.pos))
                   ELSE Ok(None, pb.pos))

\* type2::write with the p-bit written after the value instead of before it.
type2_write_PbitLast(b, value, len) ==
    IF IsSome(value)
    THEN write_pbit(write_bits(b, value[1], len), 1)
    ELSE write_pbit(b, 0)

\* type2::write
type2_write(b, value, len) ==
    IF IsSome(value)
    THEN write_bits(write_pbit(b, 1), value[1], len)
    ELSE write_pbit(b, 0)

----------------------------------------------------------------------------
(* type34 *)

\* check_peek_mbit reading the m-bit instead of peeking at it.
check_peek_mbit_Reading(b, p) ==
    LET m == peek_bits(b, p, 1)
    IN IF m = None THEN Err("OutOfBounds", "", p)
       ELSE IF m[1] = 0 THEN Err("FieldNotPresent", "", seek_rel(p, 1))
       ELSE Ok(<<1>>, p)

\* check_peek_mbit: Ok(true), FieldNotPresent or OutOfBounds; the cursor stays.
check_peek_mbit(b, p) ==
    LET m == peek_bits(b, p, 1)
    IN IF m = None THEN Err("OutOfBounds", "", p)
       ELSE IF m[1] = 0 THEN Err("FieldNotPresent", "", p)
       ELSE Ok(<<1>>, p)

\* check_peek_id reading the m-bit and the identifier instead of peeking.
check_peek_id_Reading(b, p, expected_id) ==
    LET id_bits == peek_bits_posoffset(b, p, 1, 4)
    IN IF id_bits = None THEN Err("OutOfBounds", "", p)
       ELSE IF id_bits[1] = expected_id THEN Ok(<<>>, p)
       ELSE Err("FieldNotPresent", "", seek_rel(p, 5))

\* check_peek_id peeking at the cursor itself, the m-bit not skipped.
check_peek_id_NoSkip(b, p, expected_id) ==
    LET id_bits == peek_bits(b, p, 4)
    IN IF id_bits = None THEN Err("OutOfBounds", "", p)
       ELSE IF id_bits[1] = expected_id THEN Ok(<<>>, p)
       ELSE Err("FieldNotPresent", "", p)

\* check_peek_id: the 4 bits after the m-bit against expected_id.
check_peek_id(b, p, expected_id) ==
    LET id_bits == peek_bits_posoffset(b, p, 1, 4)
    IN IF id_bits = None THEN Err("OutOfBounds", "", p)
       ELSE IF id_bits[1] = expected_id THEN Ok(<<>>, p)
       ELSE Err("FieldNotPresent", "", p)

\* A failed read_bits taken for an absent element.
ReadOrFieldNotPresent(r) ==
    IF r.kind = "Ok" /\ r.val = None THEN Err("FieldNotPresent", "", r.pos) ELSE r

\* Type34Err::OutOfBounds from a failed read_bits; a panic passes through.
ReadOrOutOfBounds(r) ==
    IF r.kind = "Ok" /\ r.val = None THEN Err("OutOfBounds", "", r.pos) ELSE r

\* parse_type3_generic reading a 10-bit length field.
parse_type3_generic_ShortLen(b, p, expected_id) ==
    Try(check_peek_mbit(b, p), LAMBDA m:
    Try(check_peek_id(b, p, expected_id), LAMBDA i:
    Try(ReadOrOutOfBounds(read_bits(b, seek_rel(p, 5), 10)), LAMBDA len_bits:
    Try(ReadOrOutOfBounds(read_bits(b, len_bits.pos, len_bits.val[1])), LAMBDA data:
        Ok(<<len_bits.val[1], data.val[1]>>, data.pos)))))

\* parse_type3_generic putting the cursor back where it was when a read
\* after the lookahead fails.
parse_type3_generic_Restoring(b, p, expected_id) ==
    LET r == Try(check_peek_mbit(b, p), LAMBDA m:
             Try(check_peek_id(b, p, expected_id), LAMBDA i:
             Try(ReadOrOutOfBounds(read_bits(b, seek_rel(p, 5), 11)), LAMBDA len_bits:
             Try(ReadOrOutOfBounds(read_bits(b, len_bits.pos, len_bits.val[1])), LAMBDA data:
                 Ok(<<len_bits.val[1], data.val[1]>>, data.pos)))))
    IN  IF r.kind = "Err" THEN [r EXCEPT !.pos = p] ELSE r

\* parse_type3_generic: Ok((len_bits, data))
parse_type3_generic(b, p, expected_id) ==
    Try(check_peek_mbit(b, p), LAMBDA m:
    Try(check_peek_id(b, p, expected_id), LAMBDA i:
    Try(ReadOrOutOfBounds(read_bits(b, seek_rel(p, 5), 11)), LAMBDA len_bits:
    Try(ReadOrOutOfBounds(read_bits(b, len_bits.pos, len_bits.val[1])), LAMBDA data:
        Ok(<<len_bits.val[1], data.val[1]>>, data.pos)))))

\* len_bits - 6 on usize: below 6 the subtraction overflows, which panics
\* when overflow checks are on and wraps to 2^64 + len_bits - 6 otherwise.
\* The value is <<low, wrap>> and stands for low + wrap * 2^64.
UsizeSub6(len_bits, bld, p) ==
    IF len_bits >= 6 THEN Ok(<<len_bits - 6, 0>>, p)
    ELSE IF bld = "debug" THEN Panic(p)
    ELSE Ok(<<len_bits - 6, 1>>, p)

\* parse_type4_header_generic: Ok((num_elems, len_bits - 6)), the value
\* being <<num_elems, low, wrap>>.
parse_type4_header_generic(b, p, expected_id, bld) ==
    Try(check_peek_mbit(b, p), LAMBDA m:
    Try(check_peek_id(b, p, expected_id), LAMBDA i:
    Try(ReadOrOutOfBounds(read_bits(b, seek_rel(p, 5), 11)), LAMBDA len_bits:
    Try(ReadOrOutOfBounds(read_bits(b, len_bits.pos, 6)), LAMBDA num_elems:
    Try(UsizeSub6(len_bits.val[1], bld, num_elems.pos), LAMBDA s:
        Ok(<<num_elems.val[1]>> \o s.val, num_elems.pos))))))

\* write_type4_header_generic writing the identifier before the m-bit.
write_type4_header_generic_IdFirst(b, field_type) ==
    write_mbit(write_bits(b, field_type, 4), 1)

\* write_type4_header_generic: m-bit 1 and the 4-bit identifier.
write_type4_header_generic(b, field_type) ==
    write_bits(write_mbit(b, 1), field_type, 4)

----------------------------------------------------------------------------
(* Type-3/4 element identifiers of the MM downlink PDUs                      *)
(* (entities/mm/enums/type34_elem_id_dl.rs is not part of the sources; the   *)
(* values are those of the test vector of the group identity acknowledgement *)
(* and of ETSI EN 300 392-2, table 16.89)                                    *)

GroupIdentityDownlink == 7
GroupIdentitySecurityRelatedInformation == 12
CellTypeControl == 13
Proprietary == 15

----------------------------------------------------------------------------
(* The codec-level specification: any sequence of codec calls on a buffer   *)

\* A whole Type-3 element as it stands on the wire.
Type3Elem(id, len, data) ==
    <<1>> \o Bits(id, 4) \o Bits(len, 11) \o Bits(data, len)

\* The header of a Type-4 element as it stands on the wire.
Type4Header(id, len, count) ==
    <<1>> \o Bits(id, 4) \o Bits(len, 11) \o Bits(count, 6)

\* The pieces received codec-level frames are made of: single bits, whole
\* elements, and elements cut short or declaring more than they hold.
CodecItems ==
    { <<0>>, <<1>>,
      Type3Elem(Proprietary, 3, 5),
      Type3Elem(GroupIdentityDownlink, 0, 0),
      SubSeq(Type3Elem(Proprietary, 3, 5), 1, 17),
      <<1>> \o Bits(Proprietary, 4) \o Bits(70, 11),
      SubSeq(Type3Elem(GroupIdentityDownlink, 3, 5), 1, 9),
      Type4Header(GroupIdentityDownlink, 22, 1),
      Type4Header(Proprietary, 3, 2) }

RECURSIVE FramesOf(_, _)
FramesOf(items, n) ==
    IF n = 0 THEN { <<>> }
    ELSE LET shorter == FramesOf(items, n - 1)
         IN shorter \cup { f \o i : f \in shorter, i \in items }

CodecFrames == FramesOf(CodecItems, MaxItems)

\* The identifiers the Type-3/4 decoders are asked for.
ExpectedIds == { GroupIdentityDownlink, Proprietary }

\* The widths and values of the Type-2 calls.
Type2Widths == 1..MaxWidth
Type2Values(w) == { None } \cup { Some(v) : v \in 0..(Pow2(w) - 1) }

\* The record kept of the last call: its name, its argument (the expected
\* identifier or the width), the cursor before it, its outcome, and a log:
\* for a PDU parser the delimiters and elements it went through, for a
\* buffer-level call the call made before it.
Called(op, arg, start, o) ==
    [op |-> op, arg |-> arg, start |-> start,
     kind |-> o.kind, err |-> o.err, field |-> o.field, val |-> o.val,
     log |-> <<>>]

NoCall(op) == Called(op, 0, 0, Ok(<<>>, 0))

\* A panic aborts the program: nothing runs after it.
Running == res.kind # "Panic"

\* BitBuffer::from_bitstr(frame), or BitBuffer::new_autoexpand(_), in either
\* build profile.
InitCodec ==
    /\ build \in { "debug", "release" }
    /\ \/ mode = "fixed" /\ buf \in CodecFrames /\ res = NoCall("from_bitstr")
       \/ mode = "auto" /\ buf = <<>> /\ res = NoCall("new_autoexpand")
    /\ pos = 0
    /\ out = <<>>
    /\ nwrites = 0
    /\ NoPdu /\ NoStack /\ NoClients /\ NoLogging

\* A decoding call: the cursor moves as the call leaves it.
Decode(op, arg, o) ==
    /\ Running
    /\ mode = "fixed"
    /\ res' = Called(op, arg, pos, o)
    /\ pos' = o.pos
    /\ UNCHANGED <<buf, mode, build, out, nwrites>>
    /\ UNCHANGED <<pduVars, stackVars, clientVars, loggingVars>>

ReadObit == Decode("read_obit", 0, read_obit(buf, pos))
ReadPbit == Decode("read_pbit", 0, read_pbit(buf, pos))
ReadMbit == Decode("read_mbit", 0, read_mbit(buf, pos))

Type2Parse ==
    \E w \in Type2Widths : Decode("type2_parse", w, type2_parse(buf, pos, w, "value"))

ParseType3Generic ==
    \E id \in ExpectedIds :
        Decode("parse_type3_generic", id, parse_type3_generic(buf, pos, id))

ParseType4HeaderGeneric ==
    \E id \in ExpectedIds :
        Decode("parse_type4_header_generic", id,
               parse_type4_header_generic(buf, pos, id, build))

\* An encoding call on the auto-expanding buffer.
Encode(op, arg, b) ==
    /\ Running
    /\ mode = "auto"
    /\ nwrites < MaxWrites
    /\ buf' = b
    /\ nwrites' = nwrites + 1
    /\ res' = Called(op, arg, pos, Ok(<<>>, pos))
    /\ UNCHANGED <<pos, mode, build, out>>
    /\ UNCHANGED <<pduVars, stackVars, clientVars, loggingVars>>

WriteObit == \E v \in 0..1 : Encode("write_obit", v, write_obit(buf, v))
WritePbit == \E v \in 0..1 : Encode("write_pbit", v, write_pbit(buf, v))
WriteMbit == \E v \in 0..1 : Encode("write_mbit", v, write_mbit(buf, v))

Type2Write ==
    \E w \in Type2Widths : \E value \in Type2Values(w) :
        Encode("type2_write", w, type2_write(buf, value, w))

WriteType4HeaderGeneric ==
    \E id \in ExpectedIds :
        Encode("write_type4_header_generic", id, write_type4_header_generic(buf, id))

\* The written bits are handed to a decoder: to_bitstr, then from_bitstr.
FromBitstr ==
    /\ Running
    /\ mode = "auto"
    /\ nwrites > 0
    /\ mode' = "fixed"
    /\ pos' = 0
    /\ res' = NoCall("to_bitstr")
    /\ UNCHANGED <<buf, build, out, nwrites>>
    /\ UNCHANGED <<pduVars, stackVars, clientVars, loggingVars>>

NextCodec ==
    \/ ReadObit \/ ReadPbit \/ ReadMbit
    \/ Type2Parse
    \/ ParseType3Generic
    \/ ParseType4HeaderGeneric
    \/ WriteObit \/ WritePbit \/ WriteMbit
    \/ Type2Write
    \/ WriteType4HeaderGeneric
    \/ FromBitstr

SpecCodec == InitCodec /\ [][NextCodec]_vars

----------------------------------------------------------------------------
(* The buffer-level specification: any sequence of peeks, reads and         *)
(* lookahead checks on a received buffer.  The record of a call keeps, as   *)
(* its log, the call made just before it.                                   *)

\* The widths of the reads and peeks, and the names the reads are given.
BufferWidths == (1..MaxWidth) \cup { 4 }
FieldNames == { "pdu_type", "ssi" }

\* The pieces the received buffers are made of: single bits and the first
\* 5 bits of a Type-3/4 element.
BufferItems == { <<0>>, <<1>>, <<1>> \o Bits(Proprietary, 4) }
BufferFrames == FramesOf(BufferItems, MaxItems)

Before(r) ==
    [op |-> r.op, arg |-> r.arg, start |-> r.start,
     kind |-> r.kind, err |-> r.err, field |-> r.field, val |-> r.val]

InitBuffer ==
    /\ build \in { "debug", "release" }
    /\ mode = "fixed"
    /\ buf \in BufferFrames
    /\ res = NoCall("from_bitstr")
    /\ pos = 0
    /\ out = <<>>
    /\ nwrites = 0
    /\ NoPdu /\ NoStack /\ NoClients /\ NoLogging

\* A call on the buffer: the cursor moves as the call leaves it.
BufferCall(op, arg, o) ==
    /\ Running
    /\ res' = [Called(op, arg, pos, o) EXCEPT !.log = <<Before(res)>>]
    /\ pos' = o.pos
    /\ UNCHANGED <<buf, mode, build, out, nwrites>>
    /\ UNCHANGED <<pduVars, stackVars, clientVars, loggingVars>>

\* buffer.peek_bits(w): the Option<u64> is the value of the call.
PeekBits ==
    \E w \in BufferWidths : BufferCall("peek_bits", w, Ok(peek_bits(buf, pos, w), pos))

\* buffer.read_field(w, name)
ReadField ==
    \E w \in BufferWidths : \E name \in FieldNames :
        BufferCall("read_field", <<w, name>>, read_field(buf, pos, w, name))

CheckPeekMbit == BufferCall("check_peek_mbit", 0, check_peek_mbit(buf, pos))

CheckPeekId ==
    \E id \in ExpectedIds : BufferCall("check_peek_id", id, check_peek_id(buf, pos, id))

NextBuffer ==
    \/ PeekBits
    \/ ReadField
    \/ CheckPeekMbit
    \/ CheckPeekId
    \/ ReadObit \/ ReadPbit \/ ReadMbit

SpecBuffer == InitBuffer /\ [][NextBuffer]_vars

----------------------------------------------------------------------------
(* PDU parsers: the steps every from_bitbuf is written with.  A parse is a  *)
(* context threaded through the steps: once a step has returned (`?`, a     *)
(* return or a panic) the later steps leave the context as it is.  The log  *)
(* records, for each delimiter and element the parser went through, where   *)
(* it stood and how the decode ended.                                       *)

Put(f, name, v) == [x \in (DOMAIN f) \cup { name } |-> IF x = name THEN v ELSE f[x]]

\* what: "pdu_type", "type1", "obit", "type2", "trailing" (id is the width
\* of the read) or "type3", "type4" (id is the element identifier).
Logged(what, id, at, o) ==
    [what |-> what, id |-> id, at |-> at, end |-> o.pos,
     kind |-> o.kind, err |-> o.err, field |-> o.field, val |-> o.val]

Start(p) ==
    [run |-> TRUE, pos |-> p, end |-> Ok(<<>>, p), pdu |-> <<>>, obit |-> 0, log |-> <<>>]

Stop(c, o) == [c EXCEPT !.run = FALSE, !.end = o, !.pos = o.pos]

\* expect_pdu_type! reporting the value read as expected and the expected
\* one as found.
expect_pdu_type_Swapped(value, expected, p) ==
    IF value = expected THEN Ok(<<>>, p)
    ELSE Outcome("Err", "InvalidPduType", "", <<value, expected>>, p)

\* expect_pdu_type!(value, expected): InvalidPduType { expected, found }
expect_pdu_type(value, expected, p) ==
    IF value = expected THEN Ok(<<>>, p)
    ELSE Outcome("Err", "InvalidPduType", "", <<expected, value>>, p)

\* The ? operator inside a parser: the parse ends with the error.
TryStep(c, r, K(_)) == IF r.kind # "Ok" THEN Stop(c, r) ELSE K(r)

\* A read of width w the parser makes goes to the log, whatever its outcome.
Note(c, what, w, r) == [c EXCEPT !.log = Append(@, Logged(what, w, c.pos, r))]

\* let v = <read of width w>?;
ReadStep(c, what, w, r, K(_, _)) ==
    IF r.kind # "Ok" THEN Stop(Note(c, what, w, r), r) ELSE K(Note(c, what, w, r), r)

\* let pdu_type = buffer.read_field(w, "pdu_type")?; expect_pdu_type!(..)?;
PduType(c, b, w, expected) ==
    IF ~c.run THEN c
    ELSE ReadStep(c, "pdu_type", w, read_field(b, c.pos, w, "pdu_type"), LAMBDA c1, r:
         TryStep(c1, expect_pdu_type(r.val[1], expected, r.pos), LAMBDA e:
             [c1 EXCEPT !.pos = r.pos]))

\* let name = buffer.read_field(w, "name")?;  (a Type-1 field)
Type1(c, b, w, name) ==
    IF ~c.run THEN c
    ELSE ReadStep(c, "type1", w, read_field(b, c.pos, w, name), LAMBDA c1, r:
             [c1 EXCEPT !.pos = r.pos, !.pdu = Put(@, name, r.val[1])])

\* let mut obit = delimiters::read_obit(buffer)?;
Obit(c, b) ==
    IF ~c.run THEN c
    ELSE ReadStep(c, "obit", 1, read_obit(b, c.pos), LAMBDA c1, r:
             [c1 EXCEPT !.pos = r.pos, !.obit = r.val[1]])

\* let name = if obit { type2::parse(buffer, w, "name")? } else { None };
Type2(c, b, w, name) ==
    IF ~c.run THEN c
    ELSE IF c.obit = 1
         THEN ReadStep(c, "type2", w, type2_parse(b, c.pos, w, name), LAMBDA c1, r:
                  [c1 EXCEPT !.pos = r.pos, !.pdu = Put(@, name, r.val)])
         ELSE [c EXCEPT !.pdu = Put(@, name, None)]

\* MmType3FieldDl::parse / MmType3FieldUl::parse(buffer, id): the generic
\* Type-3 decode, the value kept as (field_type, data, len).
\* (entities/mm/components/type34_fields.rs is not part of the sources.)
MmType3Field_parse(b, p, id) ==
    Try(parse_type3_generic(b, p, id), LAMBDA r: Ok(<<id, r.val[2], r.val[1]>>, r.pos))

\* MmType4FieldDl::parse(buffer, id): a Type-4 element kept undecoded as
\* (field_type, data, len).
MmType4Field_parse(b, p, id) == MmType3Field_parse(b, p, id)

\* MmType4FieldDl::parse_header(buffer, id)
MmType4Field_parse_header(b, p, id, bld) == parse_type4_header_generic(b, p, id, bld)

\* let name = match <parse>(buffer, id) { Ok(value) => Some(value), Err(_) => {None} };
\* Every error is taken for an absent element; the cursor is left where the
\* decode left it.
Type34OrNone(c, what, id, name, r) ==
    IF ~c.run THEN c
    ELSE IF r.kind = "Panic" THEN Stop(c, r)
    ELSE [c EXCEPT !.pos = r.pos,
                   !.pdu = Put(@, name, IF r.kind = "Ok" THEN Some(r.val) ELSE None),
                   !.log = Append(@, Logged(what, id, c.pos, r))]

MmType3(c, b, id, name) == Type34OrNone(c, "type3", id, name, MmType3Field_parse(b, c.pos, id))
MmType4(c, b, id, name) == Type34OrNone(c, "type4", id, name, MmType4Field_parse(b, c.pos, id))

\* obit = if obit { buffer.read_field(1, "trailing_obit")? == 1 } else { obit };
\* if obit { return Err(PduParseError::InvalidObitValue); }
Trailing(c, b) ==
    IF ~c.run THEN c
    ELSE IF c.obit = 1
         THEN ReadStep(c, "trailing", 1, read_field(b, c.pos, 1, "trailing_obit"),
                       LAMBDA c1, r:
                  IF r.val[1] = 1 THEN Stop(c1, Err("InvalidObitValue", "", r.pos))
                  ELSE [c1 EXCEPT !.pos = r.pos])
         ELSE c

\* Ok(Pdu { .. }), or what the parse ended with; the log goes with it.
Finish(c) ==
    [o |-> IF c.run THEN Ok(<<c.pdu>>, c.pos) ELSE c.end, log |-> c.log]

\* let name = if cond { Some(buffer.read_field(w, "name")?) } else { None };
Conditional(c, b, cond, w, name) ==
    IF ~c.run THEN c
    ELSE IF cond
         THEN ReadStep(c, "type1", w, read_field(b, c.pos, w, name), LAMBDA c1, r:
                  [c1 EXCEPT !.pos = r.pos, !.pdu = Put(@, name, Some(r.val[1]))])
         ELSE [c EXCEPT !.pdu = Put(@, name, None)]

Was(c, name, vals) == c.run /\ c.pdu[name] \in vals

----------------------------------------------------------------------------
(* PDU type discriminants (entities/mm/enums and entities/cmce/enums are    *)
(* not part of the sources; the values are those of the test vectors and    *)
(* of ETSI EN 300 392-2, clauses 14.8.28 and 16.10.39)                      *)

MmPduTypeUl_UItsiDetach == 1
MmPduTypeUl_ULocationUpdateDemand == 2
MmPduTypeDl_DLocationUpdateAccept == 5
MmPduTypeDl_DLocationUpdateReject == 7
MmPduTypeDl_DLocationUpdateProceeding == 9
MmPduTypeDl_DAttachDetachGroupIdentityAcknowledgement == 11
CmcePduTypeDl_DAlert == 0
CmcePduTypeDl_DSetup == 7
CmcePduTypeDl_DStatus == 8
CmcePduTypeDl_DTxGranted == 11
CmcePduTypeUl_UCallRestore == 14

\* The other Type-3/4 element identifiers of the MM downlink PDUs.
DefaultGroupAttachLifetime == 1
NewRegisteredArea == 2
SecurityDownlink == 3
GroupIdentityLocationAccept == 5
AuthenticationDownlink == 10
\* The other Type-3/4 element identifiers of the MM uplink PDUs.
GroupIdentityLocationDemand == 3
GroupReportResponse == 4
AuthenticationUplink == 9
ExtendedCapabilities == 11
\* The Type-3 element identifiers of the CMCE PDUs.
CmceExternalSubscriberNumber == 2
CmceFacility == 3
CmceDmMsAddress == 6
CmceProprietary == 15

----------------------------------------------------------------------------
(* UItsiDetach *)

UItsiDetach_from_bitbuf(b, p) ==
    LET c0 == Start(p)
        c1 == PduType(c0, b, 4, MmPduTypeUl_UItsiDetach)
        c2 == Obit(c1, b)
        c3 == Type2(c2, b, 24, "address_extension")
        c4 == MmType3(c3, b, Proprietary, "proprietary")
        c5 == Trailing(c4, b)
    IN Finish(c5)

(* ULocationUpdateDemand *)

ULocationUpdateDemand_from_bitbuf(b, p) ==
    LET c0 == Start(p)
        c1 == PduType(c0, b, 4, MmPduTypeUl_ULocationUpdateDemand)
        c2 == Type1(c1, b, 3, "location_update_type")
        c3 == Type1(c2, b, 1, "request_to_append_la")
        c4 == Type1(c3, b, 1, "cipher_control")
        c5 == Conditional(c4, b, Was(c4, "cipher_control", {1}), 10, "ciphering_parameters")
        c6 == Obit(c5, b)
        c7 == Type2(c6, b, 24, "class_of_ms")
        c8 == Type2(c7, b, 3, "energy_saving_mode")
        c9 == Type2(c8, b, 999, "la_information")
        c10 == Type2(c9, b, 24, "ssi")
        c11 == Type2(c10, b, 24, "address_extension")
        c12 == MmType3(c11, b, GroupIdentityLocationDemand, "group_identity_location_demand")
        c13 == MmType3(c12, b, GroupReportResponse, "group_report_response")
        c14 == MmType3(c13, b, AuthenticationUplink, "authentication_uplink")
        c15 == MmType3(c14, b, ExtendedCapabilities, "extended_capabilities")
        c16 == MmType3(c15, b, Proprietary, "proprietary")
        c17 == Trailing(c16, b)
    IN Finish(c17)

(* DLocationUpdateProceeding *)

DLocationUpdateProceeding_from_bitbuf(b, p) ==
    LET c0 == Start(p)
        c1 == PduType(c0, b, 4, MmPduTypeDl_DLocationUpdateProceeding)
        c2 == Type1(c1, b, 24, "ssi")
        c3 == Type1(c2, b, 24, "address_extension")
        c4 == Obit(c3, b)
        c5 == MmType3(c4, b, Proprietary, "proprietary")
        c6 == Trailing(c5, b)
    IN Finish(c6)

(* DLocationUpdateReject *)

\* unimplemented!()
Unimplemented(c) == IF ~c.run THEN c ELSE Stop(c, Panic(c.pos))

DLocationUpdateReject_from_bitbuf(b, p) ==
    LET c0 == Start(p)
        c1 == PduType(c0, b, 4, MmPduTypeDl_DLocationUpdateReject)
        c2 == Type1(c1, b, 3, "location_update_type")
        c3 == Type1(c2, b, 5, "reject_cause")
        c4 == Type1(c3, b, 1, "cipher_control")
        c5 == Unimplemented(c4)
        c6 == Obit(c5, b)
        c7 == Type2(c6, b, 24, "address_extension")
        c8 == MmType3(c7, b, CellTypeControl, "cell_type_control")
        c9 == MmType3(c8, b, Proprietary, "proprietary")
        c10 == Trailing(c9, b)
    IN Finish(c10)

(* DLocationUpdateAccept *)

\* MmLocationUpdateAcceptType::try_from(val): every 3-bit value names a type.
InvalidAcceptType(r) ==
    IF r.run /\ r.pdu["location_update_accept_type"] \notin 0..7
    THEN Stop(r, Outcome("Err", "InvalidValue", "location_update_accept_type",
                         <<r.pdu["location_update_accept_type"]>>, r.pos))
    ELSE r

LocationUpdateAcceptType(c, b) ==
    InvalidAcceptType(Type1(c, b, 3, "location_update_accept_type"))

DLocationUpdateAccept_from_bitbuf(b, p) ==
    LET c0 == Start(p)
        c1 == PduType(c0, b, 4, MmPduTypeDl_DLocationUpdateAccept)
        c2 == LocationUpdateAcceptType(c1, b)
        c3 == Obit(c2, b)
        c4 == Type2(c3, b, 24, "ssi")
        c5 == Type2(c4, b, 24, "address_extension")
        c6 == Type2(c5, b, 16, "subscriber_class")
        c7 == Type2(c6, b, 14, "energy_saving_information")
        c8 == Type2(c7, b, 6, "scch_information_and_distribution_on_18th_frame")
        c9 == MmType4(c8, b, NewRegisteredArea, "new_registered_area")
        c10 == MmType3(c9, b, SecurityDownlink, "security_downlink")
        c11 == MmType3(c10, b, GroupIdentityLocationAccept, "group_identity_location_accept")
        c12 == MmType3(c11, b, DefaultGroupAttachLifetime, "default_group_attachment_lifetime")
        c13 == MmType3(c12, b, AuthenticationDownlink, "authentication_downlink")
        c14 == MmType4(c13, b, GroupIdentitySecurityRelatedInformation,
                       "group_identity_security_related_information")
        c15 == MmType3(c14, b, CellTypeControl, "cell_type_control")
        c16 == MmType3(c15, b, Proprietary, "proprietary")
        c17 == Trailing(c16, b)
    IN Finish(c17)

(* DAlert *)

\* CmceType3Field::parse(buffer, "name"): Result<Option<CmceType3Field>, _>,
\* the generic Type-3 decode for the identifier the name stands for; a miss
\* of the lookahead is Ok(None), an exhausted buffer the error of the field.
\* (entities/cmce/components/type3_fields.rs is not part of the sources.)
CmceType3Field_found(id, name, r) ==
    IF r.kind = "Ok" THEN Ok(Some(<<id, r.val[2], r.val[1]>>), r.pos)
    ELSE IF r.kind = "Err" /\ r.err = "FieldNotPresent" THEN Ok(None, r.pos)
    ELSE IF r.kind = "Err" THEN Err("BufferEnded", name, r.pos)
    ELSE r

CmceType3Field_id(name) ==
    CASE name = "external_subscriber_number" -> CmceExternalSubscriberNumber
      [] name = "facility" -> CmceFacility
      [] name = "dm_ms_address" -> CmceDmMsAddress
      [] OTHER -> CmceProprietary

CmceType3Field_parse(b, p, name) ==
    CmceType3Field_found(CmceType3Field_id(name), name,
                         parse_type3_generic(b, p, CmceType3Field_id(name)))

\* let name = if obit { CmceType3Field::parse(buffer, "name")? } else { None };
CmceType3(c, b, name) ==
    IF ~c.run THEN c
    ELSE IF c.obit = 1
         THEN TryStep(c, CmceType3Field_parse(b, c.pos, name), LAMBDA r:
                  [c EXCEPT !.pos = r.pos, !.pdu = Put(@, name, r.val),
                            !.log = Append(@, Logged("type3", 0, c.pos, r))])
         ELSE [c EXCEPT !.pdu = Put(@, name, None)]

DAlert_from_bitbuf(b, p) ==
    LET c0 == Start(p)
        c1 == PduType(c0, b, 5, CmcePduTypeDl_DAlert)
        c2 == Type1(c1, b, 14, "call_identifier")
        c3 == Type1(c2, b, 3, "call_time_out_set_up_phase")
        c4 == Type1(c3, b, 1, "reserved")
        c5 == Type1(c4, b, 1, "simplex_duplex_selection")
        c6 == Type1(c5, b, 1, "call_queued")
        c7 == Obit(c6, b)
        c8 == Type2(c7, b, 8, "basic_service_information")
        c9 == Type2(c8, b, 6, "notification_indicator")
        c10 == CmceType3(c9, b, "facility")
        c11 == CmceType3(c10, b, "proprietary")
        c12 == Trailing(c11, b)
    IN Finish(c12)

(* GroupIdentityDownlink, the sub-element of the group identity downlink    *)
(* Type-4 element (entities/mm/fields/group_identity_downlink.rs is not     *)
(* part of the sources; the layout is that of the test vector's comment and *)
(* of ETSI EN 300 392-2, clause 16.10.22)                                   *)

GroupIdentityDownlink_from_bitbuf(b, p) ==
    LET c0 == Start(p)
        c1 == Type1(c0, b, 1, "attach_detach_type_identifier")
        c2 == Conditional(c1, b, Was(c1, "attach_detach_type_identifier", {0}), 2, "lifetime")
        c3 == Conditional(c2, b, Was(c1, "attach_detach_type_identifier", {0}), 3, "class_of_usage")
        c4 == Conditional(c3, b, Was(c1, "attach_detach_type_identifier", {1}), 2, "detachment")
        c5 == Type1(c4, b, 2, "address_type")
        c6 == Conditional(c5, b, Was(c5, "address_type", {0, 1, 3}), 24, "gssi")
        c7 == Conditional(c6, b, Was(c5, "address_type", {1, 3}), 24, "address_extension")
        c8 == Conditional(c7, b, Was(c5, "address_type", {2, 3}), 24, "vgssi")
    IN Finish(c8).o

WriteSome(b, o, w) == IF IsSome(o) THEN write_bits(b, o[1], w) ELSE b

GroupIdentityDownlink_to_bitbuf(b, e) ==
    LET b1 == write_bits(b, e["attach_detach_type_identifier"], 1)
        b2 == WriteSome(b1, e["lifetime"], 2)
        b3 == WriteSome(b2, e["class_of_usage"], 3)
        b4 == WriteSome(b3, e["detachment"], 2)
        b5 == write_bits(b4, e["address_type"], 2)
        b6 == WriteSome(b5, e["gssi"], 24)
        b7 == WriteSome(b6, e["address_extension"], 24)
    IN WriteSome(b7, e["vgssi"], 24)

(* MmType3FieldDl::write and MmType4FieldDl::write, write_field             *)
(* (entities/mm/components/type34_fields.rs is not part of the sources;     *)
(* modelled from the specification, sections 4.4 and 4.5)                   *)

\* m-bit 1, identifier, 11-bit length, payload.
MmType3Field_write(b, field_type, data, len) ==
    write_bits(write_bits(write_bits(write_mbit(b, 1), field_type, 4), len, 11), data, len)

MmType4Field_write(b, field_type, data, len) == MmType3Field_write(b, field_type, data, len)

RECURSIVE GroupIdentityDownlinkElems_to_bitbuf(_, _)
GroupIdentityDownlinkElems_to_bitbuf(b, elems) ==
    IF elems = <<>> THEN b
    ELSE GroupIdentityDownlinkElems_to_bitbuf(
             GroupIdentityDownlink_to_bitbuf(b, Head(elems)), Tail(elems))

\* The header, the length of the count and of the sub-elements, the count,
\* the sub-elements.
MmType4Field_write_field(b, id, elems) ==
    LET body == GroupIdentityDownlinkElems_to_bitbuf(<<>>, elems)
    IN write_bits(write_bits(write_type4_header_generic(b, id), 6 + Len(body), 11),
                  Len(elems), 6) \o body

(* DAttachDetachGroupIdentityAcknowledgement *)

\* for _ in 0..num_elems { elems.push(GroupIdentityDownlink::from_bitbuf(buffer)?); }
RECURSIVE GroupIdentityDownlinkElems(_, _, _)
GroupIdentityDownlinkElems(b, p, num_elems) ==
    IF num_elems = 0 THEN Ok(<<>>, p)
    ELSE Try(GroupIdentityDownlink_from_bitbuf(b, p), LAMBDA e:
         Try(GroupIdentityDownlinkElems(b, e.pos, num_elems - 1), LAMBDA rest:
             Ok(<<e.val[1]>> \o rest.val, rest.pos)))

\* Ok((num_elems, _)) => { .. elems.push(GroupIdentityDownlink::from_bitbuf(buffer)?) ..
\*                         Some(elems) }
GroupIdentityDownlinkSome(c, e) ==
    IF e.kind # "Ok"
    THEN [Stop(c, e) EXCEPT
           !.log = Append(@, Logged("type4", GroupIdentityDownlink, c.pos, e))]
    ELSE [c EXCEPT !.pos = e.pos,
                   !.pdu = Put(@, "group_identity_downlink", Some(e.val)),
                   !.log = Append(@, Logged("type4", GroupIdentityDownlink, c.pos, e))]

\* let group_identity_downlink = match type4_field { Ok((num_elems, _)) => {..}, Err(_) => None };
GroupIdentityDownlinkMatch(c, b, h) ==
    IF h.kind = "Panic" THEN Stop(c, h)
    ELSE IF h.kind = "Err"
    THEN [c EXCEPT !.pos = h.pos,
                   !.pdu = Put(@, "group_identity_downlink", None),
                   !.log = Append(@, Logged("type4", GroupIdentityDownlink, c.pos, h))]
    ELSE GroupIdentityDownlinkSome(c, GroupIdentityDownlinkElems(b, h.pos, h.val[1]))

\* let type4_field = MmType4FieldDl::parse_header(buffer, id);
GroupIdentityDownlinkField(c, b, bld) ==
    IF ~c.run THEN c
    ELSE GroupIdentityDownlinkMatch(
             c, b, MmType4Field_parse_header(b, c.pos, GroupIdentityDownlink, bld))

DAttachDetachGroupIdentityAcknowledgement_from_bitbuf(b, p, bld) ==
    LET c0 == Start(p)
        c1 == PduType(c0, b, 4, MmPduTypeDl_DAttachDetachGroupIdentityAcknowledgement)
        c2 == Type1(c1, b, 1, "group_identity_accept_reject")
        c3 == Type1(c2, b, 1, "reserved")
        c4 == Obit(c3, b)
        c5 == MmType3(c4, b, Proprietary, "proprietary")
        c6 == GroupIdentityDownlinkField(c5, b, bld)
        c7 == MmType4(c6, b, GroupIdentitySecurityRelatedInformation,
                      "group_identity_security_related_information")
        c8 == Trailing(c7, b)
    IN Finish(c8)

\* if let Some(ref value) = self.name { MmType3FieldDl::write(buffer, ..); }
WriteType3Some(b, o) ==
    IF IsSome(o) THEN MmType3Field_write(b, o[1][1], o[1][2], o[1][3]) ELSE b

\* if let Some(ref value) = self.name { MmType4FieldDl::write(buffer, ..); }
WriteType4Some(b, o) ==
    IF IsSome(o) THEN MmType4Field_write(b, o[1][1], o[1][2], o[1][3]) ELSE b

\* if let Some(ref elems) = self.group_identity_downlink { write_field(..); }
WriteFieldSome(b, id, o) ==
    IF IsSome(o) THEN MmType4Field_write_field(b, id, o[1]) ELSE b

\* The fields after the o-bit with the terminating m-bit left out.
DAttachDetachGroupIdentityAcknowledgement_optional_NoMbit(b, pdu) ==
    WriteType4Some(
        WriteFieldSome(
            WriteType3Some(b, pdu["proprietary"]),
            GroupIdentityDownlink, pdu["group_identity_downlink"]),
        pdu["group_identity_security_related_information"])

\* The fields after the o-bit, and the terminating m-bit.
DAttachDetachGroupIdentityAcknowledgement_optional(b, pdu) ==
    write_mbit(
        WriteType4Some(
            WriteFieldSome(
                WriteType3Some(b, pdu["proprietary"]),
                GroupIdentityDownlink, pdu["group_identity_downlink"]),
            pdu["group_identity_security_related_information"]),
        0)

\* if !obit_val { return; }
ReturnUnless(obit_val, b, rest) == IF ~obit_val THEN b ELSE rest

DAttachDetachGroupIdentityAcknowledgement_to_bitbuf(b, pdu) ==
    LET b1 == write_bits(b, MmPduTypeDl_DAttachDetachGroupIdentityAcknowledgement, 4)
        b2 == write_bits(b1, pdu["group_identity_accept_reject"], 1)
        b3 == write_bits(b2, pdu["reserved"], 1)
        obit_val == \/ IsSome(pdu["proprietary"])
                    \/ IsSome(pdu["group_identity_downlink"])
                    \/ IsSome(pdu["group_identity_security_related_information"])
        b4 == write_obit(b3, IF obit_val THEN 1 ELSE 0)
    IN ReturnUnless(obit_val, b4, DAttachDetachGroupIdentityAcknowledgement_optional(b4, pdu))

----------------------------------------------------------------------------
(* What stands in the buffer at a cursor position s *)

\* The bit at s is an m-bit 1 and the 4 bits after it are there.
ElementAt(b, s) == s + 5 <= Len(b) /\ b[s + 1] = 1
\* The 4-bit identifier after the m-bit at s.
TagAt(b, s) == Val(SubSeq(b, s + 2, s + 5))
\* The 11-bit length field after the identifier.
HasLenAt(b, s) == s + 16 <= Len(b)
LenAt(b, s) == Val(SubSeq(b, s + 6, s + 16))
\* A whole Type-3 element stands at s: m-bit, identifier, length and the
\* payload the length declares, which fits one u64 read.
WholeType3At(b, s) ==
    /\ ElementAt(b, s)
    /\ HasLenAt(b, s)
    /\ LenAt(b, s) <= MaxFieldBits
    /\ s + 16 + LenAt(b, s) <= Len(b)
\* A whole Type-4 header stands at s: m-bit, identifier, a length that
\* covers the 6-bit count, and the count.
WholeType4HeaderAt(b, s) ==
    /\ ElementAt(b, s)
    /\ s + 22 <= Len(b)
    /\ LenAt(b, s) >= 6
CountAt(b, s) == Val(SubSeq(b, s + 17, s + 22))
PayloadAt(b, s) == Val(SubSeq(b, s + 17, s + 16 + LenAt(b, s)))

----------------------------------------------------------------------------
C2_CursorInBuffer == 0 <= pos /\ pos <= Len(buf)

\* A Type-3 call has matched an element on the last 5 bits of the buffer:
\* seek_rel(5) has put the cursor on the end.
C2_Witness ==
    /\ res.op = "parse_type3_generic"
    /\ res.err = "OutOfBounds"
    /\ res.start + 5 = Len(buf)
    /\ pos = Len(buf)

(* C7: Type-2 round trip.  Where the bits written by type2::write(value, w) *)
(* stand at the cursor, type2::parse with width w returns Ok(value) and     *)
(* consumes exactly those bits: 1 for None, 1 + w for Some.                 *)
C7_Type2RoundTrip ==
    res.op = "type2_parse" =>
        \A value \in Type2Values(res.arg) :
            LET written == type2_write(<<>>, value, res.arg)
            IN (/\ res.start + Len(written) <= Len(buf)
                /\ SubSeq(buf, res.start + 1, res.start + Len(written)) = written)
               => /\ res.kind = "Ok"
                  /\ res.val = value
                  /\ pos = res.start + Len(written)
                  /\ Len(written) = (IF value = None THEN 1 ELSE 1 + res.arg)

\* type2::write(Some(2), 2) was decoded from an encoder's buffer.
C7_Witness ==
    /\ res.op = "type2_parse"
    /\ nwrites > 0
    /\ res.arg = 2
    /\ res.start = 0
    /\ buf = type2_write(<<>>, Some(2), 2)
    /\ res.val = Some(2)
    /\ pos = 3

C10_Type4HeaderOnMatch ==
    (/\ res.op = "parse_type4_header_generic"
     /\ ElementAt(buf, res.start)
     /\ res.start + 22 <= Len(buf)
     /\ TagAt(buf, res.start) = res.arg)
    => /\ res.kind = "Ok"
       /\ pos = res.start + 22
       /\ res.val = <<CountAt(buf, res.start), LenAt(buf, res.start) - 6, 0>>

\* Every value of the 4-bit element identifier.
AllIds == 0..15

(* C11: absent element.  When the bit at the cursor (the leading m-bit) is  *)
(* 0, parse_type3_generic and parse_type4_header_generic return             *)
(* FieldNotPresent and leave the cursor where it was, whatever identifier   *)
(* is expected.                                                             *)
C11_AbsentElement ==
    (/\ res.op \in { "parse_type3_generic", "parse_type4_header_generic" }
     /\ res.start < Len(buf)
     /\ buf[res.start + 1] = 0)
    => /\ res.kind = "Err" /\ res.err = "FieldNotPresent"
       /\ pos = res.start
       /\ \A id \in AllIds :
             /\ parse_type3_generic(buf, res.start, id)
                  = Err("FieldNotPresent", "", res.start)
             /\ parse_type4_header_generic(buf, res.start, id, build)
                  = Err("FieldNotPresent", "", res.start)

\* A Type-4 header call has found m-bit 0 after an element was decoded.
C11_Witness ==
    /\ res.op = "parse_type4_header_generic"
    /\ res.start > 0
    /\ res.start < Len(buf)
    /\ buf[res.start + 1] = 0
    /\ res.err = "FieldNotPresent"
    /\ pos = res.start

(* C12: exhaustion is distinguishable from absence.  parse_type3_generic    *)
(* returns OutOfBounds whenever m-bit and identifier matched and the buffer *)
(* holds fewer than 11 bits for the length field or fewer bits than the     *)
(* length field declares for the payload; it returns FieldNotPresent only   *)
(* when the bit at the cursor is 0 or the 4 bits after it differ from       *)
(* expected_id.                                                             *)
C12_ExhaustionIsNotAbsence ==
    res.op = "parse_type3_generic" =>
        /\ (/\ ElementAt(buf, res.start)
            /\ TagAt(buf, res.start) = res.arg
            /\ \/ ~HasLenAt(buf, res.start)
               \/ res.start + 16 + LenAt(buf, res.start) > Len(buf))
           => res.kind = "Err" /\ res.err = "OutOfBounds"
        /\ (res.kind = "Err" /\ res.err = "FieldNotPresent")
           => /\ res.start < Len(buf)
              /\ \/ buf[res.start + 1] = 0
                 \/ ElementAt(buf, res.start) /\ TagAt(buf, res.start) # res.arg

\* A matched element declared 3 payload bits and the buffer held 1.
C12_Witness ==
    /\ res.op = "parse_type3_generic"
    /\ ElementAt(buf, res.start)
    /\ TagAt(buf, res.start) = res.arg
    /\ HasLenAt(buf, res.start)
    /\ LenAt(buf, res.start) = 3
    /\ Len(buf) = res.start + 17
    /\ res.err = "OutOfBounds"

\* read_field(w, _) was called right after peek_bits(w).
PeekThenRead ==
    /\ res.op = "read_field"
    /\ res.log[1].op = "peek_bits"
    /\ res.log[1].arg = res.arg[1]

(* C13: peek non-consumption.  peek_bits(w) followed at once by             *)
(* read_field(w, _) yields the same value twice, and the cursor after the   *)
(* two calls is the cursor after a single read_field(w, _); peek_bits,      *)
(* check_peek_mbit and check_peek_id never change the cursor.               *)
C13_PeekNonConsumption ==
    /\ PeekThenRead
       => /\ res.start = res.log[1].start
          /\ res.kind = "Ok" <=> IsSome(res.log[1].val)
          /\ res.kind = "Ok" => res.val = res.log[1].val
          /\ pos = read_field(buf, res.log[1].start, res.arg[1], res.arg[2]).pos
    /\ res.op \in { "peek_bits", "check_peek_mbit", "check_peek_id" }
       => pos = res.start

\* Four bits were peeked and then read in the middle of a buffer.
C13_Witness ==
    /\ PeekThenRead
    /\ res.arg[1] = 4
    /\ res.start > 0
    /\ res.kind = "Ok"
    /\ res.val = <<Proprietary>>
    /\ res.log[1].val = Some(Proprietary)
    /\ pos = res.start + 4

\* The name each delimiter reader gives the bit it reads.
DelimiterName(op) ==
    CASE op = "read_obit" -> "obit"
      [] op = "read_pbit" -> "pbit"
      [] op = "read_mbit" -> "mbit"

(* C14: boundary behaviour.  read_field(w, name) on a buffer with fewer     *)
(* than w bits remaining returns BufferEnded naming the field and leaves    *)
(* the cursor where it was, so the same read made again returns the         *)
(* identical error; read_obit, read_pbit and read_mbit on an exhausted      *)
(* buffer return BufferEnded with field obit, pbit and mbit.                *)
C14_Boundary ==
    /\ (res.op = "read_field" /\ res.start + res.arg[1] > Len(buf))
       => /\ res.kind = "Err" /\ res.err = "BufferEnded" /\ res.field = res.arg[2]
          /\ pos = res.start
          /\ read_field(buf, pos, res.arg[1], res.arg[2])
               = Err("BufferEnded", res.arg[2], res.start)
          /\ (res.log[1].op = "read_field" /\ res.log[1].arg = res.arg
                 /\ res.log[1].kind = "Err")
             => res.log[1] = Before(res)
    /\ (res.op \in { "read_obit", "read_pbit", "read_mbit" } /\ res.start = Len(buf))
       => /\ res.kind = "Err" /\ res.err = "BufferEnded"
          /\ res.field = DelimiterName(res.op)
          /\ pos = res.start

\* A read that failed in the middle of a buffer was made again.
C14_Witness ==
    /\ res.op = "read_field"
    /\ res.kind = "Err"
    /\ res.start > 0
    /\ res.start < Len(buf)
    /\ res.log[1] = Before(res)

(* C15: Type-2 decode steps.  type2::parse reads one p-bit; if it is 0 the  *)
(* call returns Ok(None) having consumed exactly 1 bit; if it is 1 the call *)
(* reads num_bits further bits and returns Ok(Some(value)) having consumed  *)
(* 1 + num_bits bits; the BufferEnded error of either read (field pbit, or  *)
(* the name of the field) is returned as it is.                             *)
C15_Type2DecodeSteps ==
    res.op = "type2_parse" =>
        /\ res.start = Len(buf)
           => /\ res.kind = "Err" /\ res.err = "BufferEnded" /\ res.field = "pbit"
              /\ pos = res.start
        /\ (res.start < Len(buf) /\ buf[res.start + 1] = 0)
           => /\ res.kind = "Ok" /\ res.val = None
              /\ pos = res.start + 1
        /\ (res.start < Len(buf) /\ buf[res.start + 1] = 1
               /\ res.start + 1 + res.arg <= Len(buf))
           => /\ res.kind = "Ok"
              /\ res.val = Some(Val(SubSeq(buf, res.start + 2, res.start + 1 + res.arg)))
              /\ pos = res.start + 1 + res.arg
        /\ (res.start < Len(buf) /\ buf[res.start + 1] = 1
               /\ res.start + 1 + res.arg > Len(buf))
           => /\ res.kind = "Err" /\ res.err = "BufferEnded" /\ res.field = "value"
              /\ [kind |-> res.kind, err |-> res.err, field |-> res.field]
                   = LET e == read_field(buf, res.start + 1, res.arg, "value")
                     IN [kind |-> e.kind, err |-> e.err, field |-> e.field]

\* A p-bit 0 was consumed in the middle of a received buffer.
C15_Witness ==
    /\ res.op = "type2_parse"
    /\ nwrites = 0
    /\ res.start > 0
    /\ res.start < Len(buf)
    /\ buf[res.start + 1] = 0
    /\ res.kind = "Ok"
    /\ res.val = None
    /\ pos = res.start + 1

----------------------------------------------------------------------------
(* The CMCE PDUs with conditional address fields *)

\* The SSI read only with the extension: type identifier Some(2).
SsiCondition_ExtendedOnly(c, name) == c.obit = 1 /\ Was(c, name, { Some(2) })

\* let name = if obit && t == Some(1) || t == Some(2) { Some(read_field(24, ..)?) } ..
\* (&& binds tighter than ||)
SsiCondition(c, name) ==
    \/ c.obit = 1 /\ Was(c, name, { Some(1) })
    \/ Was(c, name, { Some(2) })

\* let name = if obit && t == Some(2) { Some(read_field(24, ..)?) } else { None };
ExtensionCondition(c, name) == c.obit = 1 /\ Was(c, name, { Some(2) })

DStatus_from_bitbuf(b, p) ==
    LET c0 == Start(p)
        c1 == PduType(c0, b, 5, CmcePduTypeDl_DStatus)
        c2 == Type1(c1, b, 2, "calling_party_type_identifier")
        c3 == Conditional(c2, b, Was(c2, "calling_party_type_identifier", { 1, 2 }),
                          24, "calling_party_address_ssi")
        c4 == Conditional(c3, b, Was(c2, "calling_party_type_identifier", { 2 }),
                          24, "calling_party_extension")
        c5 == Type1(c4, b, 16, "pre_coded_status")
        c6 == Obit(c5, b)
        c7 == CmceType3(c6, b, "external_subscriber_number")
        c8 == CmceType3(c7, b, "dm_ms_address")
        c9 == Trailing(c8, b)
    IN Finish(c9)

DSetup_from_bitbuf(b, p) ==
    LET c0 == Start(p)
        c1 == PduType(c0, b, 5, CmcePduTypeDl_DSetup)
        c2 == Type1(c1, b, 14, "call_identifier")
        c3 == Type1(c2, b, 4, "call_time_out")
        c4 == Type1(c3, b, 1, "hook_method_selection")
        c5 == Type1(c4, b, 1, "simplex_duplex_selection")
        c6 == Type1(c5, b, 8, "basic_service_information")
        c7 == Type1(c6, b, 2, "transmission_grant")
        c8 == Type1(c7, b, 1, "transmission_request_permission")
        c9 == Type1(c8, b, 4, "call_priority")
        c10 == Obit(c9, b)
        c11 == Type2(c10, b, 6, "notification_indicator")
        c12 == Type2(c11, b, 24, "temporary_address")
        c13 == Type2(c12, b, 2, "calling_party_type_identifier")
        c14 == Conditional(c13, b, SsiCondition(c13, "calling_party_type_identifier"),
                           24, "calling_party_address_ssi")
        c15 == Conditional(c14, b, ExtensionCondition(c13, "calling_party_type_identifier"),
                           24, "calling_party_extension")
        c16 == CmceType3(c15, b, "external_subscriber_number")
        c17 == CmceType3(c16, b, "facility")
        c18 == CmceType3(c17, b, "dm_ms_address")
        c19 == CmceType3(c18, b, "proprietary")
        c20 == Trailing(c19, b)
    IN Finish(c20)

DTxGranted_from_bitbuf(b, p) ==
    LET c0 == Start(p)
        c1 == PduType(c0, b, 5, CmcePduTypeDl_DTxGranted)
        c2 == Type1(c1, b, 14, "call_identifier")
        c3 == Type1(c2, b, 2, "transmission_grant")
        c4 == Type1(c3, b, 1, "transmission_request_permission")
        c5 == Type1(c4, b, 1, "encryption_control")
        c6 == Type1(c5, b, 1, "reserved")
        c7 == Obit(c6, b)
        c8 == Type2(c7, b, 6, "notification_indicator")
        c9 == Type2(c8, b, 2, "transmitting_party_type_identifier")
        c10 == Conditional(c9, b, SsiCondition(c9, "transmitting_party_type_identifier"),
                           24, "transmitting_party_address_ssi")
        c11 == Conditional(c10, b, ExtensionCondition(c9, "transmitting_party_type_identifier"),
                           24, "transmitting_party_extension")
        c12 == CmceType3(c11, b, "external_subscriber_number")
        c13 == CmceType3(c12, b, "facility")
        c14 == CmceType3(c13, b, "dm_ms_address")
        c15 == CmceType3(c14, b, "proprietary")
        c16 == Trailing(c15, b)
    IN Finish(c16)

UCallRestore_from_bitbuf(b, p) ==
    LET c0 == Start(p)
        c1 == PduType(c0, b, 5, CmcePduTypeUl_UCallRestore)
        c2 == Type1(c1, b, 14, "call_identifier")
        c3 == Type1(c2, b, 1, "request_to_transmit_send_data")
        c4 == Type1(c3, b, 2, "other_party_type_identifier")
        c5 == Conditional(c4, b, Was(c4, "other_party_type_identifier", { 0 }),
                          8, "other_party_short_number_address")
        c6 == Conditional(c5, b, Was(c4, "other_party_type_identifier", { 1, 2 }),
                          24, "other_party_ssi")
        c7 == Conditional(c6, b, Was(c4, "other_party_type_identifier", { 2 }),
                          24, "other_party_extension")
        c8 == Obit(c7, b)
        c9 == Type2(c8, b, 8, "basic_service_information")
        c10 == CmceType3(c9, b, "facility")
        c11 == CmceType3(c10, b, "dm_ms_address")
        c12 == CmceType3(c11, b, "proprietary")
        c13 == Trailing(c12, b)
    IN Finish(c13)

----------------------------------------------------------------------------
(* PDU serializers: the steps every to_bitbuf is written with.  A           *)
(* serialization is a context threaded through the steps: the bits written  *)
(* so far and a log of the writes; once to_bitbuf has returned or panicked   *)
(* the later steps leave the context as it is.                               *)

Begin(b) == [run |-> TRUE, kind |-> "Ok", buf |-> b, log |-> <<>>]

\* what: "pdu_type", "type1", "conditional", "obit", "type2", "type3", "mbit"
Wrote(w, what, name, b) ==
    [w EXCEPT !.buf = b,
              !.log = Append(@, [what |-> what, name |-> name,
                                 at |-> Len(w.buf), end |-> Len(b)])]

\* buffer.write_bits(PduType::X.into_raw(), n);
WritePduType(w, v, n) == Wrote(w, "pdu_type", "pdu_type", write_bits(w.buf, v, n))

\* buffer.write_bits(self.name as u64, n);
WriteType1(w, self, n, name) ==
    IF ~w.run THEN w ELSE Wrote(w, "type1", name, write_bits(w.buf, self[name], n))

\* A conditional field written with its presence bit, as a Type-2 field is.
WriteConditional_WithPbit(w, self, n, name) ==
    IF ~w.run \/ ~IsSome(self[name]) THEN w
    ELSE Wrote(w, "conditional", name, type2_write(w.buf, self[name], n))

\* if let Some(ref value) = self.name { buffer.write_bits(*value, n); }
WriteConditional(w, self, n, name) ==
    IF ~w.run \/ ~IsSome(self[name]) THEN w
    ELSE Wrote(w, "conditional", name, write_bits(w.buf, self[name][1], n))

\* let obit_val = self.a.is_some() || ..; write_obit(buffer, obit_val as u8);
\* if !obit_val { return Ok(()); }
WriteObitVal(w, self, names) ==
    IF ~w.run THEN w
    ELSE IF \E name \in names : IsSome(self[name])
         THEN Wrote(w, "obit", "obit", write_obit(w.buf, 1))
         ELSE [Wrote(w, "obit", "obit", write_obit(w.buf, 0)) EXCEPT !.run = FALSE]

\* typed_pdu_fields::type2::write(buffer, self.name, n);
WriteType2(w, self, n, name) ==
    IF ~w.run THEN w ELSE Wrote(w, "type2", name, type2_write(w.buf, self[name], n))

\* CmceType3Field::write(buffer, field_type, data, len): the element as the
\* generic Type-3 decode reads it.
\* (entities/cmce/components/type3_fields.rs is not part of the sources.)
CmceType3Field_write(b, field_type, data, len) == MmType3Field_write(b, field_type, data, len)

\* if let Some(ref value) = self.name { XxType3Field::write(buffer, ..); }
WriteType3(w, self, name) ==
    IF ~w.run \/ ~IsSome(self[name]) THEN w
    ELSE Wrote(w, "type3", name,
               CmceType3Field_write(w.buf, self[name][1][1], self[name][1][2], self[name][1][3]))

\* typed_pdu_fields::delimiters::write_mbit(buffer, 0); Ok(())
WriteTerminating(w) ==
    IF ~w.run THEN w ELSE Wrote(w, "mbit", "mbit", write_mbit(w.buf, 0))

\* unimplemented!();
WriteUnimplemented(w) == IF ~w.run THEN w ELSE [w EXCEPT !.run = FALSE, !.kind = "Panic"]

UItsiDetach_to_bitbuf(b, self) ==
    LET w1 == WritePduType(Begin(b), MmPduTypeUl_UItsiDetach, 4)
        w2 == WriteObitVal(w1, self, { "address_extension", "proprietary" })
        w3 == WriteType2(w2, self, 24, "address_extension")
        w4 == WriteType3(w3, self, "proprietary")
    IN WriteTerminating(w4)

ULocationUpdateDemand_to_bitbuf(b, self) ==
    LET w1 == WritePduType(Begin(b), MmPduTypeUl_ULocationUpdateDemand, 4)
        w2 == WriteType1(w1, self, 3, "location_update_type")
        w3 == WriteType1(w2, self, 1, "request_to_append_la")
        w4 == WriteType1(w3, self, 1, "cipher_control")
        w5 == WriteConditional(w4, self, 10, "ciphering_parameters")
        w6 == WriteObitVal(w5, self,
                  { "class_of_ms", "energy_saving_mode", "la_information", "ssi",
                    "address_extension", "group_identity_location_demand",
                    "group_report_response", "authentication_uplink",
                    "extended_capabilities", "proprietary" })
        w7 == WriteType2(w6, self, 24, "class_of_ms")
        w8 == WriteType2(w7, self, 3, "energy_saving_mode")
        w9 == WriteUnimplemented(w8)
        w10 == WriteType2(w9, self, 999, "la_information")
        w11 == WriteType2(w10, self, 24, "ssi")
        w12 == WriteType2(w11, self, 24, "address_extension")
        w13 == WriteType3(w12, self, "group_identity_location_demand")
        w14 == WriteType3(w13, self, "group_report_response")
        w15 == WriteType3(w14, self, "authentication_uplink")
        w16 == WriteType3(w15, self, "extended_capabilities")
        w17 == WriteType3(w16, self, "proprietary")
    IN WriteTerminating(w17)

DAlert_to_bitbuf(b, self) ==
    LET w1 == WritePduType(Begin(b), CmcePduTypeDl_DAlert, 5)
        w2 == WriteType1(w1, self, 14, "call_identifier")
        w3 == WriteType1(w2, self, 3, "call_time_out_set_up_phase")
        w4 == WriteType1(w3, self, 1, "reserved")
        w5 == WriteType1(w4, self, 1, "simplex_duplex_selection")
        w6 == WriteType1(w5, self, 1, "call_queued")
        w7 == WriteObitVal(w6, self,
                  { "basic_service_information", "notification_indicator",
                    "facility", "proprietary" })
        w8 == WriteType2(w7, self, 8, "basic_service_information")
        w9 == WriteType2(w8, self, 6, "notification_indicator")
        w10 == WriteType3(w9, self, "facility")
        w11 == WriteType3(w10, self, "proprietary")
    IN WriteTerminating(w11)

DStatus_to_bitbuf(b, self) ==
    LET w1 == WritePduType(Begin(b), CmcePduTypeDl_DStatus, 5)
        w2 == WriteType1(w1, self, 2, "calling_party_type_identifier")
        w3 == WriteConditional(w2, self, 24, "calling_party_address_ssi")
        w4 == WriteConditional(w3, self, 24, "calling_party_extension")
        w5 == WriteType1(w4, self, 16, "pre_coded_status")
        w6 == WriteObitVal(w5, self, { "external_subscriber_number", "dm_ms_address" })
        w7 == WriteType3(w6, self, "external_subscriber_number")
        w8 == WriteType3(w7, self, "dm_ms_address")
    IN WriteTerminating(w8)

DSetup_to_bitbuf(b, self) ==
    LET w1 == WritePduType(Begin(b), CmcePduTypeDl_DSetup, 5)
        w2 == WriteType1(w1, self, 14, "call_identifier")
        w3 == WriteType1(w2, self, 4, "call_time_out")
        w4 == WriteType1(w3, self, 1, "hook_method_selection")
        w5 == WriteType1(w4, self, 1, "simplex_duplex_selection")
        w6 == WriteType1(w5, self, 8, "basic_service_information")
        w7 == WriteType1(w6, self, 2, "transmission_grant")
        w8 == WriteType1(w7, self, 1, "transmission_request_permission")
        w9 == WriteType1(w8, self, 4, "call_priority")
        w10 == WriteObitVal(w9, self,
                   { "notification_indicator", "temporary_address",
                     "calling_party_type_identifier", "external_subscriber_number",
                     "facility", "dm_ms_address", "proprietary" })
        w11 == WriteType2(w10, self, 6, "notification_indicator")
        w12 == WriteType2(w11, self, 24, "temporary_address")
        w13 == WriteType2(w12, self, 2, "calling_party_type_identifier")
        w14 == WriteConditional(w13, self, 24, "calling_party_address_ssi")
        w15 == WriteConditional(w14, self, 24, "calling_party_extension")
        w16 == WriteType3(w15, self, "external_subscriber_number")
        w17 == WriteType3(w16, self, "facility")
        w18 == WriteType3(w17, self, "dm_ms_address")
        w19 == WriteType3(w18, self, "proprietary")
    IN WriteTerminating(w19)

DTxGranted_to_bitbuf(b, self) ==
    LET w1 == WritePduType(Begin(b), CmcePduTypeDl_DTxGranted, 5)
        w2 == WriteType1(w1, self, 14, "call_identifier")
        w3 == WriteType1(w2, self, 2, "transmission_grant")
        w4 == WriteType1(w3, self, 1, "transmission_request_permission")
        w5 == WriteType1(w4, self, 1, "encryption_control")
        w6 == WriteType1(w5, self, 1, "reserved")
        w7 == WriteObitVal(w6, self,
                  { "notification_indicator", "transmitting_party_type_identifier",
                    "external_subscriber_number", "facility", "dm_ms_address",
                    "proprietary" })
        w8 == WriteType2(w7, self, 6, "notification_indicator")
        w9 == WriteType2(w8, self, 2, "transmitting_party_type_identifier")
        w10 == WriteConditional(w9, self, 24, "transmitting_party_address_ssi")
        w11 == WriteConditional(w10, self, 24, "transmitting_party_extension")
        w12 == WriteType3(w11, self, "external_subscriber_number")
        w13 == WriteType3(w12, self, "facility")
        w14 == WriteType3(w13, self, "dm_ms_address")
        w15 == WriteType3(w14, self, "proprietary")
    IN WriteTerminating(w15)

UCallRestore_to_bitbuf(b, self) ==
    LET w1 == WritePduType(Begin(b), CmcePduTypeUl_UCallRestore, 5)
        w2 == WriteType1(w1, self, 14, "call_identifier")
        w3 == WriteType1(w2, self, 1, "request_to_transmit_send_data")
        w4 == WriteType1(w3, self, 2, "other_party_type_identifier")
        w5 == WriteConditional(w4, self, 8, "other_party_short_number_address")
        w6 == WriteConditional(w5, self, 24, "other_party_ssi")
        w7 == WriteConditional(w6, self, 24, "other_party_extension")
        w8 == WriteObitVal(w7, self,
                  { "basic_service_information", "facility", "dm_ms_address",
                    "proprietary" })
        w9 == WriteType2(w8, self, 8, "basic_service_information")
        w10 == WriteType3(w9, self, "facility")
        w11 == WriteType3(w10, self, "dm_ms_address")
        w12 == WriteType3(w11, self, "proprietary")
    IN WriteTerminating(w12)

----------------------------------------------------------------------------
(* The serialization specification: a PDU structure is serialized into an   *)
(* auto-expanding buffer and the written bits are parsed again.             *)

\* Number of values an optional numeric field of a structure is drawn from.
MaxValues == 1

\* The value given to a Type-1 field of width w.
Type1Value(w) == IF w = 1 THEN 1 ELSE Pow2(w) - 2

\* None, or one of the largest values of the width.
OptValues(w) == { None } \cup { Some(Pow2(w) - k) : k \in 1..MaxValues }

\* None, or a Type-3 field (field_type, data, len) of 3 bits.
OptType3(name) == { None, Some(<<CmceType3Field_id(name), 5, 3>>) }

UItsiDetachValues ==
    { [address_extension |-> ae, proprietary |-> pr] :
        ae \in OptValues(24), pr \in OptType3("proprietary") }

ULocationUpdateDemandValues ==
    { [location_update_type |-> Type1Value(3), request_to_append_la |-> 1,
       cipher_control |-> IF IsSome(cp) THEN 1 ELSE 0, ciphering_parameters |-> cp,
       class_of_ms |-> cm, energy_saving_mode |-> es, la_information |-> la,
       ssi |-> None, address_extension |-> None,
       group_identity_location_demand |-> None, group_report_response |-> None,
       authentication_uplink |-> None, extended_capabilities |-> None,
       proprietary |-> pr] :
        cp \in OptValues(10), cm \in OptValues(24), es \in OptValues(3),
        la \in OptValues(24), pr \in OptType3("proprietary") }

DAlertValues ==
    { [call_identifier |-> Type1Value(14), call_time_out_set_up_phase |-> Type1Value(3),
       reserved |-> 0, simplex_duplex_selection |-> 1, call_queued |-> 1,
       basic_service_information |-> bs, notification_indicator |-> ni,
       facility |-> fa, proprietary |-> pr] :
        bs \in OptValues(8), ni \in OptValues(6),
        fa \in OptType3("facility"), pr \in OptType3("proprietary") }

DStatusValues ==
    { [calling_party_type_identifier |-> t, calling_party_address_ssi |-> ssi,
       calling_party_extension |-> ext, pre_coded_status |-> Type1Value(16),
       external_subscriber_number |-> es, dm_ms_address |-> dm] :
        t \in 0..3, ssi \in OptValues(24), ext \in OptValues(24),
        es \in OptType3("external_subscriber_number"), dm \in OptType3("dm_ms_address") }

DSetupValues ==
    { [call_identifier |-> Type1Value(14), call_time_out |-> Type1Value(4),
       hook_method_selection |-> 1, simplex_duplex_selection |-> 0,
       basic_service_information |-> Type1Value(8), transmission_grant |-> Type1Value(2),
       transmission_request_permission |-> 1, call_priority |-> Type1Value(4),
       notification_indicator |-> ni, temporary_address |-> ta,
       calling_party_type_identifier |-> t, calling_party_address_ssi |-> ssi,
       calling_party_extension |-> ext, external_subscriber_number |-> None,
       facility |-> fa, dm_ms_address |-> None, proprietary |-> pr] :
        ni \in OptValues(6), ta \in OptValues(24),
        t \in { None, Some(0), Some(1), Some(2), Some(3) },
        ssi \in OptValues(24), ext \in OptValues(24),
        fa \in OptType3("facility"), pr \in OptType3("proprietary") }

DTxGrantedValues ==
    { [call_identifier |-> Type1Value(14), transmission_grant |-> Type1Value(2),
       transmission_request_permission |-> 0, encryption_control |-> 1, reserved |-> 0,
       notification_indicator |-> ni, transmitting_party_type_identifier |-> t,
       transmitting_party_address_ssi |-> ssi, transmitting_party_extension |-> ext,
       external_subscriber_number |-> es, facility |-> None,
       dm_ms_address |-> None, proprietary |-> pr] :
        ni \in OptValues(6), t \in { None, Some(0), Some(1), Some(2), Some(3) },
        ssi \in OptValues(24), ext \in OptValues(24),
        es \in OptType3("external_subscriber_number"), pr \in OptType3("proprietary") }

UCallRestoreValues ==
    { [call_identifier |-> Type1Value(14), request_to_transmit_send_data |-> 1,
       other_party_type_identifier |-> t, other_party_short_number_address |-> sna,
       other_party_ssi |-> ssi, other_party_extension |-> ext,
       basic_service_information |-> bs, facility |-> fa,
       dm_ms_address |-> dm, proprietary |-> None] :
        t \in 0..3, sna \in OptValues(8), ssi \in OptValues(24), ext \in OptValues(24),
        bs \in OptValues(8), fa \in OptType3("facility"), dm \in OptType3("dm_ms_address") }

Structures(op, values) == { [pdu |-> op, self |-> v] : v \in values }

\* A structure built by the caller and BitBuffer::new_autoexpand(_).
InitSerialize ==
    /\ build \in { "debug", "release" }
    /\ mode = "auto"
    /\ buf = <<>>
    /\ res = NoCall("new_autoexpand")
    /\ pos = 0
    /\ out = <<>>
    /\ nwrites = 0
    /\ tx_pdu \in Structures("UItsiDetach", UItsiDetachValues)
              \cup Structures("ULocationUpdateDemand", ULocationUpdateDemandValues)
              \cup Structures("DAlert", DAlertValues)
              \cup Structures("DStatus", DStatusValues)
              \cup Structures("DSetup", DSetupValues)
              \cup Structures("DTxGranted", DTxGrantedValues)
              \cup Structures("UCallRestore", UCallRestoreValues)
    /\ NoStack /\ NoClients /\ NoLogging

\* self.to_bitbuf(&mut buffer): the record of the call keeps the log of the
\* writes; an unimplemented!() panics.
ToBitbuf(op, w) ==
    /\ Running
    /\ tx_pdu.pdu = op
    /\ res.op = "new_autoexpand"
    /\ buf' = w.buf
    /\ res' = [Called("to_bitbuf", 0, 0,
                      IF w.kind = "Panic" THEN Panic(0) ELSE Ok(<<>>, 0))
               EXCEPT !.log = w.log]
    /\ UNCHANGED <<pos, mode, build, out, nwrites, tx_pdu>>
    /\ UNCHANGED <<stackVars, clientVars, loggingVars>>

UItsiDetachToBitbuf == ToBitbuf("UItsiDetach", UItsiDetach_to_bitbuf(buf, tx_pdu.self))
ULocationUpdateDemandToBitbuf ==
    ToBitbuf("ULocationUpdateDemand", ULocationUpdateDemand_to_bitbuf(buf, tx_pdu.self))
DAlertToBitbuf == ToBitbuf("DAlert", DAlert_to_bitbuf(buf, tx_pdu.self))
DStatusToBitbuf == ToBitbuf("DStatus", DStatus_to_bitbuf(buf, tx_pdu.self))
DSetupToBitbuf == ToBitbuf("DSetup", DSetup_to_bitbuf(buf, tx_pdu.self))
DTxGrantedToBitbuf == ToBitbuf("DTxGranted", DTxGranted_to_bitbuf(buf, tx_pdu.self))
UCallRestoreToBitbuf == ToBitbuf("UCallRestore", UCallRestore_to_bitbuf(buf, tx_pdu.self))

\* Pdu::from_bitbuf(&mut BitBuffer::from_bitstr(buffer.to_bitstr())) on the
\* bits a to_bitbuf has written.
FromWritten(op, fin) ==
    /\ Running
    /\ tx_pdu.pdu = op
    /\ res.op = "to_bitbuf"
    /\ mode' = "fixed"
    /\ res' = [Called("from_bitbuf", 0, 0, fin.o) EXCEPT !.log = fin.log]
    /\ pos' = fin.o.pos
    /\ UNCHANGED <<buf, build, out, nwrites, tx_pdu>>
    /\ UNCHANGED <<stackVars, clientVars, loggingVars>>

DStatusFromWritten == FromWritten("DStatus", DStatus_from_bitbuf(buf, 0))
DSetupFromWritten == FromWritten("DSetup", DSetup_from_bitbuf(buf, 0))
DTxGrantedFromWritten == FromWritten("DTxGranted", DTxGranted_from_bitbuf(buf, 0))
UCallRestoreFromWritten == FromWritten("UCallRestore", UCallRestore_from_bitbuf(buf, 0))

NextSerialize ==
    \/ UItsiDetachToBitbuf
    \/ ULocationUpdateDemandToBitbuf
    \/ DAlertToBitbuf
    \/ DStatusToBitbuf
    \/ DSetupToBitbuf
    \/ DTxGrantedToBitbuf
    \/ UCallRestoreToBitbuf
    \/ DStatusFromWritten
    \/ DSetupFromWritten
    \/ DTxGrantedFromWritten
    \/ UCallRestoreFromWritten

SpecSerialize == InitSerialize /\ [][NextSerialize]_vars

----------------------------------------------------------------------------
(* The PDU-level specification: a received frame is decoded by one PDU      *)
(* parser, and a decoded acknowledgement is encoded again                   *)

\* Largest number of items after the head of a received PDU frame.
MaxPduItems == 2

\* The test vector of tests::decode_encode_test.
TestVec ==
    <<1, 0, 1, 1, 0, 0, 1, 1, 0, 1, 1, 1, 0, 0, 0, 0, 0, 1, 0, 0, 1, 1, 0, 0, 0, 0, 0, 0, 1, 0, 1,
      1, 1, 0, 0, 0, 0, 0, 0, 0, 0, 1, 1, 0, 1, 0, 1, 0, 0, 0, 1, 1, 0, 0, 1, 1, 1, 0, 0, 0, 0, 0>>

\* Its GroupIdentityDownlink sub-element.
TestVecElem == SubSeq(TestVec, 30, 61)

\* The Type-1 fields of each PDU, after its discriminant.
PduBases ==
    { Bits(MmPduTypeUl_UItsiDetach, 4),
      Bits(MmPduTypeUl_ULocationUpdateDemand, 4) \o Bits(1, 3) \o <<0, 0>>,
      Bits(MmPduTypeDl_DLocationUpdateProceeding, 4) \o Bits(1001, 24) \o Bits(2, 24),
      Bits(MmPduTypeDl_DLocationUpdateReject, 4) \o Bits(1, 3) \o Bits(2, 5) \o <<0>>,
      Bits(MmPduTypeDl_DLocationUpdateAccept, 4) \o Bits(3, 3),
      Bits(MmPduTypeDl_DAttachDetachGroupIdentityAcknowledgement, 4) \o <<0, 0>>,
      Bits(CmcePduTypeDl_DAlert, 5) \o Bits(77, 14) \o Bits(1, 3) \o <<1, 0, 0>> }

\* After the Type-1 fields: nothing, o-bit 0, o-bit 1, o-bit 1 and one or
\* more absent Type-2 elements, o-bit 1 and a present Type-2 element.
PduHeadEnds ==
    { <<>>, <<0>>, <<1>>, <<1, 0>>, <<1, 0, 0>>, <<1, 0, 0, 0, 0, 0>>,
      <<1, 1>> \o Bits(4660, 24) }

\* What follows: single bits, whole elements, and elements cut short or
\* declaring more than they hold.
PduItems ==
    { <<0>>, <<1>>,
      Type3Elem(Proprietary, 3, 5),
      SubSeq(Type3Elem(Proprietary, 3, 1), 1, 17),
      <<1>> \o Bits(Proprietary, 4) \o Bits(70, 11),
      Type3Elem(CellTypeControl, 0, 0),
      Type3Elem(GroupIdentitySecurityRelatedInformation, 2, 1),
      Type4Header(GroupIdentityDownlink, 38, 1) \o TestVecElem,
      Type4Header(GroupIdentityDownlink, 3, 1) \o TestVecElem,
      Type4Header(GroupIdentityDownlink, 7, 1) \o TestVecElem,
      Type4Header(GroupIdentityDownlink, 38, 2) \o TestVecElem }

PduFrames ==
    { h \o e \o t : h \in PduBases, e \in PduHeadEnds, t \in FramesOf(PduItems, MaxPduItems) }

\* The Type-3/4 elements of a PDU in the order of its table, which is the
\* order from_bitbuf looks for them in, and in ascending order of their
\* identifiers.
TableOrder(op) ==
    IF op = "DLocationUpdateAccept"
    THEN <<NewRegisteredArea, SecurityDownlink, GroupIdentityLocationAccept,
           DefaultGroupAttachLifetime, AuthenticationDownlink,
           GroupIdentitySecurityRelatedInformation, CellTypeControl, Proprietary>>
    ELSE <<Proprietary, GroupIdentityDownlink, GroupIdentitySecurityRelatedInformation>>

NumericalOrder(op) == SortSeq(TableOrder(op), LAMBDA x, y : x < y)

ElementIds(op) == { TableOrder(op)[i] : i \in DOMAIN TableOrder(op) }

\* The elements of the set S in the given order.
Present(order, S) == SelectSeq(order, LAMBDA id : id \in S)

\* One well-formed element with the identifier id: the group identity
\* downlink element of the test vector, or a Type-3 element of 2 payload bits.
ElementBits(id) ==
    IF id = GroupIdentityDownlink
    THEN Type4Header(id, 38, 1) \o TestVecElem
    ELSE Type3Elem(id, 2, 1)

RECURSIVE ElementsBits(_)
ElementsBits(ids) ==
    IF ids = <<>> THEN <<>> ELSE ElementBits(Head(ids)) \o ElementsBits(Tail(ids))

\* Discriminant, Type-1 fields, o-bit 1 and the absent Type-2 elements.
OrderedHead(op) ==
    IF op = "DLocationUpdateAccept"
    THEN Bits(MmPduTypeDl_DLocationUpdateAccept, 4) \o Bits(3, 3) \o <<1, 0, 0, 0, 0, 0>>
    ELSE Bits(MmPduTypeDl_DAttachDetachGroupIdentityAcknowledgement, 4) \o <<0, 0>> \o <<1>>

\* A well-formed PDU: the head, the elements, the terminating m-bit 0.
OrderedFrame(op, ids) == OrderedHead(op) \o ElementsBits(ids) \o <<0>>

\* The well-formed PDUs with every non-empty subset of the elements, in
\* either order.
OrderedFrames ==
    UNION { { OrderedFrame(op, Present(order, S)) :
                order \in { TableOrder(op), NumericalOrder(op) },
                S \in (SUBSET ElementIds(op)) \ { {} } } :
            op \in { "DLocationUpdateAccept", "DAttachDetachGroupIdentityAcknowledgement" } }

InitPdu ==
    /\ build \in { "debug", "release" }
    /\ mode = "fixed"
    /\ buf \in PduFrames \cup OrderedFrames
    /\ res = NoCall("from_bitstr")
    /\ pos = 0
    /\ out = <<>>
    /\ nwrites = 0
    /\ NoPdu /\ NoStack /\ NoClients /\ NoLogging

\* Pdu::from_bitbuf(&mut buffer) on the received frame.
FromBitbuf(op, fin) ==
    /\ Running
    /\ mode = "fixed"
    /\ res.op = "from_bitstr"
    /\ res' = [Called(op, 0, pos, fin.o) EXCEPT !.log = fin.log]
    /\ pos' = fin.o.pos
    /\ UNCHANGED <<buf, mode, build, out, nwrites>>
    /\ UNCHANGED <<pduVars, stackVars, clientVars, loggingVars>>

UItsiDetachFromBitbuf ==
    FromBitbuf("UItsiDetach", UItsiDetach_from_bitbuf(buf, pos))
ULocationUpdateDemandFromBitbuf ==
    FromBitbuf("ULocationUpdateDemand", ULocationUpdateDemand_from_bitbuf(buf, pos))
DLocationUpdateProceedingFromBitbuf ==
    FromBitbuf("DLocationUpdateProceeding", DLocationUpdateProceeding_from_bitbuf(buf, pos))
DLocationUpdateRejectFromBitbuf ==
    FromBitbuf("DLocationUpdateReject", DLocationUpdateReject_from_bitbuf(buf, pos))
DLocationUpdateAcceptFromBitbuf ==
    FromBitbuf("DLocationUpdateAccept", DLocationUpdateAccept_from_bitbuf(buf, pos))
DAlertFromBitbuf ==
    FromBitbuf("DAlert", DAlert_from_bitbuf(buf, pos))
DAttachDetachGroupIdentityAcknowledgementFromBitbuf ==
    FromBitbuf("DAttachDetachGroupIdentityAcknowledgement",
               DAttachDetachGroupIdentityAcknowledgement_from_bitbuf(buf, pos, build))

\* pdu.to_bitbuf(&mut BitBuffer::new_autoexpand(32)) on a decoded
\* acknowledgement, as in tests::decode_encode_test.
DAttachDetachGroupIdentityAcknowledgementToBitbuf ==
    /\ Running
    /\ res.op = "DAttachDetachGroupIdentityAcknowledgement"
    /\ res.kind = "Ok"
    /\ out' = DAttachDetachGroupIdentityAcknowledgement_to_bitbuf(<<>>, res.val[1])
    /\ res' = [res EXCEPT !.op = "DAttachDetachGroupIdentityAcknowledgement_to_bitbuf"]
    /\ UNCHANGED <<buf, pos, mode, build, nwrites>>
    /\ UNCHANGED <<pduVars, stackVars, clientVars, loggingVars>>

NextPdu ==
    \/ UItsiDetachFromBitbuf
    \/ ULocationUpdateDemandFromBitbuf
    \/ DLocationUpdateProceedingFromBitbuf
    \/ DLocationUpdateRejectFromBitbuf
    \/ DLocationUpdateAcceptFromBitbuf
    \/ DAlertFromBitbuf
    \/ DAttachDetachGroupIdentityAcknowledgementFromBitbuf
    \/ DAttachDetachGroupIdentityAcknowledgementToBitbuf

SpecPdu == InitPdu /\ [][NextPdu]_vars

----------------------------------------------------------------------------
(* The PDU parsers and the Type-2, Type-3 and Type-4 fields of each         *)
(* structure.                                                               *)

PduNames ==
    { "UItsiDetach", "ULocationUpdateDemand", "DLocationUpdateProceeding",
      "DLocationUpdateReject",
      "DLocationUpdateAccept", "DAlert", "DAttachDetachGroupIdentityAcknowledgement" }

OptionalFields(op) ==
    CASE op = "UItsiDetach" -> { "address_extension", "proprietary" }
      [] op = "ULocationUpdateDemand" ->
            { "class_of_ms", "energy_saving_mode", "la_information", "ssi",
              "address_extension", "group_identity_location_demand",
              "group_report_response", "authentication_uplink", "extended_capabilities",
              "proprietary" }
      [] op = "DLocationUpdateProceeding" -> { "proprietary" }
      [] op = "DLocationUpdateReject" ->
            { "address_extension", "cell_type_control", "proprietary" }
      [] op = "DLocationUpdateAccept" ->
            { "ssi", "address_extension", "subscriber_class", "energy_saving_information",
              "scch_information_and_distribution_on_18th_frame", "new_registered_area",
              "security_downlink", "group_identity_location_accept",
              "default_group_attachment_lifetime", "authentication_downlink",
              "group_identity_security_related_information", "cell_type_control",
              "proprietary" }
      [] op = "DAlert" ->
            { "basic_service_information", "notification_indicator", "facility",
              "proprietary" }
      [] op = "DAttachDetachGroupIdentityAcknowledgement" ->
            { "proprietary", "group_identity_downlink",
              "group_identity_security_related_information" }

\* The parser went through a Type-3/4 element whose m-bit and identifier
\* matched and whose decode then ran out of buffer.
MatchedThenOutOfBounds(e) ==
    /\ e.what \in { "type3", "type4" }
    /\ e.kind = "Err" /\ e.err = "OutOfBounds"
    /\ ElementAt(buf, e.at)
    /\ TagAt(buf, e.at) = e.id

\* The o-bits the parser read (one at most), by value.
ObitsRead(v) == { k \in DOMAIN res.log : res.log[k].what = "obit" /\ res.log[k].val = <<v>> }

\* Where the last element the parser decoded ends: the o-bit, a Type-2
\* element (present or absent), a Type-3 or a Type-4 element.
Recognised ==
    { k \in DOMAIN res.log :
        res.log[k].what \in { "obit", "type2", "type3", "type4" } /\ res.log[k].kind = "Ok" }
LastRecognisedEnd == res.log[CHOOSE k \in Recognised : \A j \in Recognised : j <= k].end

(* C3: no codec function panics: whatever the frame, a PDU from_bitbuf (and *)
(* the codec functions it calls) returns Ok or Err.                         *)
C3_NoPanic == res.op \in PduNames => res.kind \in { "Ok", "Err" }

(* C4: a failed element decode aborts the PDU parse: when a Type-3/4        *)
(* element whose m-bit and identifier matched ran out of buffer,            *)
(* from_bitbuf returns Err, never Ok with the element None.                 *)
C4_FailedElementAborts ==
    (/\ res.op \in PduNames
     /\ \E k \in DOMAIN res.log : MatchedThenOutOfBounds(res.log[k]))
    => res.kind = "Err"

(* C5: an unexpected trailing m-bit is a hard error: when the o-bit was 1   *)
(* and the bit after the last element the parser recognised is 1,           *)
(* from_bitbuf never returns Ok (the error being InvalidObitValue when the  *)
(* parser read that bit as the trailing m-bit).                             *)
C5_TrailingMbitIsError ==
    (/\ res.op \in PduNames
     /\ ObitsRead(1) # {}
     /\ LastRecognisedEnd < Len(buf)
     /\ buf[LastRecognisedEnd + 1] = 1)
    => /\ res.kind # "Ok"
       /\ (res.kind = "Err" /\ res.field = "") => res.err = "InvalidObitValue"

(* C6: o-bit 0 ends the PDU: when the o-bit read after the Type-1 fields is *)
(* 0, every Type-2/3/4 field of the returned structure is None and the      *)
(* cursor is right after the o-bit, whatever follows in the buffer.         *)
C6_ObitZeroEndsPdu ==
    \A k \in ObitsRead(0) :
        (res.op \in PduNames /\ res.kind = "Ok")
        => /\ \A f \in OptionalFields(res.op) : res.val[1][f] = None
           /\ pos = res.log[k].end

\* An acknowledgement was decoded and the result encoded.
Reencoded == res.op = "DAttachDetachGroupIdentityAcknowledgement_to_bitbuf"

(* C8 as stated: the fixture decodes without error, and every frame that    *)
(* from_bitbuf decodes successfully while consuming all of it is            *)
(* reproduced bit for bit by to_bitbuf of the result.                       *)
C8_AsStated ==
    /\ (res.op = "DAttachDetachGroupIdentityAcknowledgement" /\ buf = TestVec)
       => res.kind = "Ok"
    /\ (Reencoded /\ pos = Len(buf)) => out = buf

(* C8 amended: the fixture decodes without error, all of it consumed, to a  *)
(* group identity downlink element of one sub-element, and to_bitbuf of the *)
(* result is the fixture; for every frame that from_bitbuf decodes          *)
(* successfully, to_bitbuf of the result is a bitstring that from_bitbuf    *)
(* decodes, consuming all of it, to the same structure, and that to_bitbuf  *)
(* reproduces bit for bit.                                                  *)
C8_DecodeEncode ==
    /\ (res.op = "DAttachDetachGroupIdentityAcknowledgement" /\ buf = TestVec)
       => /\ res.kind = "Ok"
          /\ pos = Len(buf)
          /\ Len(res.val[1]["group_identity_downlink"][1]) = 1
    /\ (Reencoded /\ buf = TestVec) => out = buf
    /\ Reencoded
       => LET again == DAttachDetachGroupIdentityAcknowledgement_from_bitbuf(out, 0, build).o
          IN /\ again.kind = "Ok"
             /\ again.pos = Len(out)
             /\ again.val = res.val
             /\ DAttachDetachGroupIdentityAcknowledgement_to_bitbuf(<<>>, again.val[1]) = out

\* The fixture was decoded and encoded again.
C8_Witness == Reencoded /\ buf = TestVec /\ out = TestVec /\ pos = Len(TestVec)

\* The bits stand in the buffer from position s on.
StandsAt(b, s, bits) ==
    s + Len(bits) <= Len(b) /\ SubSeq(b, s + 1, s + Len(bits)) = bits

\* The identifiers of the well-formed elements that stand one after another
\* from position s on.
RECURSIVE TagsFrom(_, _, _)
TagsFrom(b, s, ids) ==
    IF \E id \in ids : StandsAt(b, s, ElementBits(id))
    THEN <<CHOOSE id \in ids : StandsAt(b, s, ElementBits(id))>>
         \o TagsFrom(b, s + Len(ElementBits(CHOOSE id \in ids : StandsAt(b, s, ElementBits(id)))),
                     ids)
    ELSE <<>>

\* The buffer is a well-formed PDU carrying the elements ids, which are in
\* the order of the table or in ascending order of identifier.
InOrder(op, ids) ==
    /\ ids # <<>>
    /\ buf = OrderedFrame(op, ids)
    /\ \/ ids = Present(TableOrder(op), { ids[i] : i \in DOMAIN ids })
       \/ ids = Present(NumericalOrder(op), { ids[i] : i \in DOMAIN ids })

\* The field of the structure that holds the element id.
ElementField(id) ==
    CASE id = DefaultGroupAttachLifetime -> "default_group_attachment_lifetime"
      [] id = NewRegisteredArea -> "new_registered_area"
      [] id = SecurityDownlink -> "security_downlink"
      [] id = GroupIdentityLocationAccept -> "group_identity_location_accept"
      [] id = GroupIdentityDownlink -> "group_identity_downlink"
      [] id = AuthenticationDownlink -> "authentication_downlink"
      [] id = GroupIdentitySecurityRelatedInformation ->
            "group_identity_security_related_information"
      [] id = CellTypeControl -> "cell_type_control"
      [] id = Proprietary -> "proprietary"

\* The parser has returned Ok with every element of ids populated.
Accepted(ids) ==
    /\ res.kind = "Ok"
    /\ \A i \in DOMAIN ids : IsSome(res.val[1][ElementField(ids[i])])

(* C16: Type-3/4 element order.  DLocationUpdateAccept::from_bitbuf and     *)
(* DAttachDetachGroupIdentityAcknowledgement::from_bitbuf return Ok with    *)
(* every present element populated on a well-formed PDU whose Type-3/4      *)
(* elements are in the order of the PDU table or in ascending order of      *)
(* their identifiers, for every subset of present elements.                 *)
C16_ElementOrder ==
    \A op \in { "DLocationUpdateAccept", "DAttachDetachGroupIdentityAcknowledgement" } :
        (/\ res.op = op
         /\ InOrder(op, TagsFrom(buf, Len(OrderedHead(op)), ElementIds(op))))
        => Accepted(TagsFrom(buf, Len(OrderedHead(op)), ElementIds(op)))

\* The parse went through a group identity downlink element and decoded
\* the sub-elements its header counts.
Type4Decoded(e) ==
    /\ e.what = "type4"
    /\ e.id = GroupIdentityDownlink
    /\ e.kind = "Ok"

\* The width (num_elems, len_bits - 6) leaves for the sub-elements is at
\* least n bits; a wrapped len_bits - 6 is 2^64 - 6 or more.
DeclaredAtLeast(h, n) == h.val[3] = 1 \/ n <= h.val[2]

(* C17: Type-4 payload accounting.  Whenever                                *)
(* DAttachDetachGroupIdentityAcknowledgement::from_bitbuf decodes a group   *)
(* identity downlink element, the bits consumed by decoding the declared    *)
(* count of sub-elements do not exceed the width total_length - 6 returned  *)
(* by the header decode, and on the test vector they equal it.              *)
C17_Type4PayloadAccounting ==
    res.op = "DAttachDetachGroupIdentityAcknowledgement" =>
        \A k \in DOMAIN res.log :
            Type4Decoded(res.log[k])
            => /\ DeclaredAtLeast(
                      parse_type4_header_generic(buf, res.log[k].at, GroupIdentityDownlink, build),
                      res.log[k].end - (res.log[k].at + 22))
               /\ buf = TestVec
                  => res.log[k].end - (res.log[k].at + 22) = LenAt(buf, res.log[k].at) - 6

\* The reads a parser makes with read_field, read_obit and type2::parse.
ReadKinds == { "pdu_type", "type1", "obit", "type2", "trailing" }

(* C18: field widths are bounded.  Every read_field and type2::parse call   *)
(* a PDU parser makes has a width between 1 and 64 bits, and every value    *)
(* read is an unsigned integer below 2^width.                               *)
C18_FieldWidthsBounded ==
    res.op \in PduNames =>
        \A k \in DOMAIN res.log :
            res.log[k].what \in ReadKinds
            => /\ res.log[k].id \in 1..MaxFieldBits
               /\ (res.log[k].kind = "Ok" /\ res.log[k].val # None)
                  => res.log[k].val[1] \in 0..(Pow2(res.log[k].id) - 1)

(* C19: the first error is surfaced.  When a read of a field or delimiter   *)
(* fails, or the decode of a matched Type-3/4 element runs out of buffer,   *)
(* from_bitbuf makes no read after it and returns Err; for a field or       *)
(* delimiter that error is BufferEnded with the name of the field (obit and *)
(* trailing_obit for the delimiter bits).                                   *)
C19_FirstErrorSurfaced ==
    res.op \in PduNames =>
        \A k \in DOMAIN res.log :
            (/\ res.log[k].kind = "Err"
             /\ res.log[k].what \in ReadKinds \/ MatchedThenOutOfBounds(res.log[k]))
            => /\ k = Len(res.log)
               /\ res.kind = "Err"
               /\ res.log[k].what \in ReadKinds
                  => /\ res.err = "BufferEnded"
                     /\ res.field = res.log[k].field
                     /\ res.log[k].what = "obit" => res.field = "obit"
                     /\ res.log[k].what = "trailing" => res.field = "trailing_obit"

\* The discriminant each parser expects, and its width: 4 bits for MM,
\* 5 bits for CMCE.
ExpectedPduType(op) ==
    CASE op = "UItsiDetach" -> MmPduTypeUl_UItsiDetach
      [] op = "ULocationUpdateDemand" -> MmPduTypeUl_ULocationUpdateDemand
      [] op = "DLocationUpdateProceeding" -> MmPduTypeDl_DLocationUpdateProceeding
      [] op = "DLocationUpdateReject" -> MmPduTypeDl_DLocationUpdateReject
      [] op = "DLocationUpdateAccept" -> MmPduTypeDl_DLocationUpdateAccept
      [] op = "DAttachDetachGroupIdentityAcknowledgement" ->
            MmPduTypeDl_DAttachDetachGroupIdentityAcknowledgement
      [] op = "DAlert" -> CmcePduTypeDl_DAlert

DiscriminantBits(op) == IF op = "DAlert" THEN 5 ELSE 4

\* The value of the first w bits of the buffer.
Found(w) == Val(SubSeq(buf, 1, w))

(* C20: PDU type check.  Every from_bitbuf reads the discriminant first (4  *)
(* bits for MM, 5 bits for CMCE).  If it differs from the expected PDU type *)
(* the parser returns InvalidPduType { expected, found }, found being the   *)
(* value read, and has consumed the discriminant bits only; if it matches,  *)
(* the parser goes on to its next read.                                     *)
C20_PduTypeCheck ==
    (res.op \in PduNames /\ Len(buf) >= DiscriminantBits(res.op))
    => /\ res.log[1].what = "pdu_type"
       /\ res.log[1].at = 0
       /\ res.log[1].id = DiscriminantBits(res.op)
       /\ res.log[1].val = <<Found(DiscriminantBits(res.op))>>
       /\ Found(DiscriminantBits(res.op)) # ExpectedPduType(res.op)
          => /\ res.kind = "Err" /\ res.err = "InvalidPduType"
             /\ res.val = <<ExpectedPduType(res.op), Found(DiscriminantBits(res.op))>>
             /\ pos = DiscriminantBits(res.op)
             /\ Len(res.log) = 1
       /\ Found(DiscriminantBits(res.op)) = ExpectedPduType(res.op)
          => /\ ~(res.kind = "Err" /\ res.err = "InvalidPduType")
             /\ Len(res.log) > 1
             /\ res.log[2].at = DiscriminantBits(res.op)

\* The acknowledgement parser was given a U-ITSI DETACH frame.
C20_Witness ==
    /\ res.op = "DAttachDetachGroupIdentityAcknowledgement"
    /\ Found(4) = MmPduTypeUl_UItsiDetach
    /\ res.err = "InvalidPduType"
    /\ res.val = <<MmPduTypeDl_DAttachDetachGroupIdentityAcknowledgement,
                   MmPduTypeUl_UItsiDetach>>
    /\ pos = 4

----------------------------------------------------------------------------
\* The lookahead of the Type-3/4 decoders on buffer b at s finds an element
\* with identifier tag and no other.
LookaheadFinds(b, s, tag) ==
    /\ check_peek_mbit(b, s) = Ok(<<1>>, s)
    /\ \A t \in AllIds : check_peek_id(b, s, t).kind = "Ok" <=> t = tag

(* C21: the Type-4 header encode matches the decode lookahead.              *)
(* write_type4_header_generic(buffer, tag) appends exactly 5 bits, m-bit 1  *)
(* and the 4-bit tag, and on the written bits check_peek_mbit returns       *)
(* Ok(true) and check_peek_id(tag') returns Ok exactly when tag' = tag, for *)
(* every tag in 0..15: for the header just written, and for the header any  *)
(* tag would append to the buffer under construction.                       *)
C21_Type4HeaderEncodeMatchesLookahead ==
    /\ res.op = "write_type4_header_generic"
       => /\ Len(buf) >= 5
          /\ SubSeq(buf, Len(buf) - 4, Len(buf)) = <<1>> \o Bits(res.arg, 4)
          /\ LookaheadFinds(buf, Len(buf) - 5, res.arg)
    /\ mode = "auto"
       => \A tag \in AllIds :
             /\ write_type4_header_generic(buf, tag) = buf \o <<1>> \o Bits(tag, 4)
             /\ LookaheadFinds(write_type4_header_generic(buf, tag), Len(buf), tag)

\* A header has been written after another write.
C21_Witness ==
    /\ res.op = "write_type4_header_generic"
    /\ res.arg = Proprietary
    /\ nwrites = 2
    /\ Len(buf) > 5
    /\ SubSeq(buf, Len(buf) - 4, Len(buf)) = <<1, 1, 1, 1, 1>>

----------------------------------------------------------------------------
\* The Type-2 fields and the Type-3/4 fields of each structure, in the
\* order of the schema.
Type2Fields(op) ==
    CASE op = "UItsiDetach" -> << "address_extension" >>
      [] op = "ULocationUpdateDemand" ->
            << "class_of_ms", "energy_saving_mode", "la_information", "ssi",
               "address_extension" >>
      [] op = "DAlert" -> << "basic_service_information", "notification_indicator" >>
      [] op = "DStatus" -> << >>
      [] op = "DSetup" ->
            << "notification_indicator", "temporary_address",
               "calling_party_type_identifier" >>
      [] op = "DTxGranted" ->
            << "notification_indicator", "transmitting_party_type_identifier" >>
      [] op = "UCallRestore" -> << "basic_service_information" >>

Type34Fields(op) ==
    CASE op = "UItsiDetach" -> << "proprietary" >>
      [] op = "ULocationUpdateDemand" ->
            << "group_identity_location_demand", "group_report_response",
               "authentication_uplink", "extended_capabilities", "proprietary" >>
      [] op = "DAlert" -> << "facility", "proprietary" >>
      [] op = "DStatus" -> << "external_subscriber_number", "dm_ms_address" >>
      [] op \in { "DSetup", "DTxGranted" } ->
            << "external_subscriber_number", "facility", "dm_ms_address", "proprietary" >>
      [] op = "UCallRestore" -> << "facility", "dm_ms_address", "proprietary" >>

Range(f) == { f[x] : x \in DOMAIN f }

\* The names of the writes of one kind that to_bitbuf made, in order.
IsType2Write(e) == e.what = "type2"
IsType34Write(e) == e.what = "type3"
Names(entries) == [k \in DOMAIN entries |-> entries[k].name]

\* The fields of the structure that are Some, in the order given.
IsPresent(name) == IsSome(tx_pdu.self[name])
PresentOf(names) == SelectSeq(names, IsPresent)

\* Some Type-2/3/4 field of the structure is Some.
AnyOptional ==
    \E f \in Range(Type2Fields(tx_pdu.pdu)) \cup Range(Type34Fields(tx_pdu.pdu)) : IsPresent(f)

(* C22: encoder framing.  Every to_bitbuf returns having written one o-bit, *)
(* 1 exactly when a Type-2/3/4 field is Some.  After an o-bit 0 nothing is  *)
(* written.  After an o-bit 1 a p-bit is written for every Type-2 field of  *)
(* the schema, 1 exactly for those that are Some, the present Type-3/4      *)
(* elements are written in schema order, and the output ends with one       *)
(* terminating m-bit 0.                                                     *)
C22_EncoderFraming ==
    res.op = "to_bitbuf" =>
        /\ res.kind = "Ok"
        /\ Cardinality({ k \in DOMAIN res.log : res.log[k].what = "obit" }) = 1
        /\ \A k \in DOMAIN res.log :
              res.log[k].what = "obit" =>
                 /\ buf[res.log[k].end] = IF AnyOptional THEN 1 ELSE 0
                 /\ \A j \in DOMAIN res.log :
                       res.log[j].what \in { "type2", "type3", "mbit" } => j > k
                 /\ ~AnyOptional => k = Len(res.log) /\ Len(buf) = res.log[k].end
                 /\ AnyOptional =>
                       /\ Names(SelectSeq(res.log, IsType2Write)) = Type2Fields(tx_pdu.pdu)
                       /\ \A j \in DOMAIN res.log :
                             res.log[j].what = "type2" =>
                                buf[res.log[j].at + 1]
                                   = IF IsPresent(res.log[j].name) THEN 1 ELSE 0
                       /\ Names(SelectSeq(res.log, IsType34Write))
                             = PresentOf(Type34Fields(tx_pdu.pdu))
                       /\ Cardinality({ j \in DOMAIN res.log : res.log[j].what = "mbit" }) = 1
                       /\ res.log[Len(res.log)].what = "mbit"
                       /\ res.log[Len(res.log)].end = Len(buf)
                       /\ buf[Len(buf)] = 0

----------------------------------------------------------------------------
\* The party type identifier of a structure, its conditional address
\* fields, and the values of the identifier each field is present for (the
\* identifier is a Type-1 field of DStatus and UCallRestore and a Type-2
\* field of DSetup and DTxGranted).
TypeIdentifier(op) ==
    CASE op \in { "DStatus", "DSetup" } -> "calling_party_type_identifier"
      [] op = "DTxGranted" -> "transmitting_party_type_identifier"
      [] op = "UCallRestore" -> "other_party_type_identifier"

ConditionalFields(op) ==
    CASE op \in { "DStatus", "DSetup" } ->
            { "calling_party_address_ssi", "calling_party_extension" }
      [] op = "DTxGranted" ->
            { "transmitting_party_address_ssi", "transmitting_party_extension" }
      [] op = "UCallRestore" ->
            { "other_party_short_number_address", "other_party_ssi", "other_party_extension" }
      [] OTHER -> { }

RequiredFor(op, field) ==
    LET ids == CASE field = "other_party_short_number_address" -> { 0 }
                 [] field \in { "calling_party_address_ssi", "transmitting_party_address_ssi",
                                "other_party_ssi" } -> { 1, 2 }
                 [] OTHER -> { 2 }
    IN IF op \in { "DSetup", "DTxGranted" } THEN { Some(t) : t \in ids } ELSE ids

\* The conditional fields of structure v are Some exactly when its type
\* identifier requires them.
ConditionalsFollow(op, v) ==
    \A f \in ConditionalFields(op) : IsSome(v[f]) <=> v[TypeIdentifier(op)] \in RequiredFor(op, f)

(* C23: conditional address fields follow the type identifier.  Every       *)
(* DStatus, DSetup and DTxGranted that from_bitbuf returns has its SSI      *)
(* field Some iff the party type identifier is 1 or 2 (Some(1) or Some(2)   *)
(* for the Type-2 identifier of DSetup and DTxGranted) and its extension    *)
(* Some iff the identifier is 2 (Some(2)); when the o-bit read is 0 both    *)
(* fields of a DSetup or DTxGranted are None.                               *)
C23_ConditionalFollowsTypeIdentifier ==
    (/\ res.op = "from_bitbuf"
     /\ res.kind = "Ok"
     /\ tx_pdu.pdu \in { "DStatus", "DSetup", "DTxGranted" })
    => /\ ConditionalsFollow(tx_pdu.pdu, res.val[1])
       /\ (tx_pdu.pdu # "DStatus" /\ ObitsRead(0) # { })
          => \A f \in ConditionalFields(tx_pdu.pdu) : res.val[1][f] = None

\* A DSetup with SSI only and one with SSI and extension have been returned.
C23_Witness ==
    /\ res.op = "from_bitbuf"
    /\ res.kind = "Ok"
    /\ tx_pdu.pdu = "DSetup"
    /\ res.val[1]["calling_party_type_identifier"] = Some(1)
    /\ IsSome(res.val[1]["calling_party_address_ssi"])
    /\ res.val[1]["calling_party_extension"] = None

\* The structures the round trip is claimed for: Type-3 fields None,
\* conditional fields as the type identifier requires.
RoundTripStructure ==
    /\ tx_pdu.pdu \in { "DStatus", "DSetup", "DTxGranted", "UCallRestore" }
    /\ \A f \in Range(Type34Fields(tx_pdu.pdu)) : tx_pdu.self[f] = None
    /\ ConditionalsFollow(tx_pdu.pdu, tx_pdu.self)

\* from_bitbuf on the written bits returns the structure and consumes them.
RoundTrips ==
    (res.op = "from_bitbuf" /\ RoundTripStructure)
    => /\ res.kind = "Ok"
       /\ res.val[1] = tx_pdu.self
       /\ pos = Len(buf)

\* to_bitbuf has written conditional field f.
ConditionalWritten(f) ==
    \E k \in DOMAIN res.log : res.log[k].what = "conditional" /\ res.log[k].name = f

(* C28 as stated: structure round trip with conditional fields, and         *)
(* to_bitbuf writes a conditional field whenever it is Some, without        *)
(* consulting the type identifier.                                          *)
C28_AsStated ==
    /\ RoundTrips
    /\ res.op = "to_bitbuf"
       => \A f \in ConditionalFields(tx_pdu.pdu) : IsPresent(f) => ConditionalWritten(f)

(* C28: structure round trip with conditional fields.  For every DStatus,   *)
(* DSetup, DTxGranted or UCallRestore whose Type-3 fields are None and      *)
(* whose conditional fields are Some exactly when the type identifier       *)
(* requires them, from_bitbuf on the bits to_bitbuf wrote returns Ok with   *)
(* the same field values and consumes all the bits.  to_bitbuf writes a     *)
(* conditional field exactly when it is Some, whatever the type identifier, *)
(* except that DSetup and DTxGranted, whose conditional fields come after   *)
(* the o-bit, write none when the o-bit is 0.                               *)
C28_RoundTrip ==
    /\ RoundTrips
    /\ res.op = "to_bitbuf"
       => \A f \in ConditionalFields(tx_pdu.pdu) :
             ConditionalWritten(f)
                <=> /\ IsPresent(f)
                    /\ tx_pdu.pdu \in { "DSetup", "DTxGranted" } => AnyOptional

\* A DTxGranted with SSI and extension has made the round trip.
C28_Witness ==
    /\ res.op = "from_bitbuf"
    /\ RoundTripStructure
    /\ tx_pdu.pdu = "DTxGranted"
    /\ tx_pdu.self["transmitting_party_type_identifier"] = Some(2)
    /\ res.val[1] = tx_pdu.self
    /\ pos = Len(buf)
    /\ Len(buf) > 48

----------------------------------------------------------------------------
(* Cursor position after a failed Type-2, Type-3 or Type-4 parse            *)

\* The bits left in the buffer at the cursor position the last call began at.
Remaining == Len(buf) - res.start

\* The m-bit at the cursor is 1 and the four bits after it are the
\* identifier the last call searched for.
HeaderMatched ==
    /\ Remaining >= 5
    /\ buf[res.start + 1] = 1
    /\ Val(SubSeq(buf, res.start + 2, res.start + 5)) = res.arg

Type34Failed ==
    /\ res.op \in {"parse_type3_generic", "parse_type4_header_generic"}
    /\ res.kind = "Err"

\* C26: after an error of parse_type3_generic or parse_type4_header_generic
\* the cursor is where the call began when the error came from the lookahead
\* (FieldNotPresent, or OutOfBounds with fewer than 5 bits left); when the
\* m-bit and the identifier matched and the error is OutOfBounds, the cursor
\* is 5 bits further if the 11-bit length could not be read and 16 bits
\* further if the payload or the element count could not be read.
C26_CursorAfterType34Error ==
    Type34Failed =>
        /\ res.err \in {"FieldNotPresent", "OutOfBounds"}
        /\ res.err = "FieldNotPresent" => pos = res.start
        /\ (res.err = "OutOfBounds" /\ Remaining < 5) => pos = res.start
        /\ (res.err = "OutOfBounds" /\ Remaining >= 5) =>
               /\ HeaderMatched
               /\ Remaining < 16 => pos = res.start + 5
               /\ Remaining >= 16 => pos = res.start + 16

\* A payload that could not be read after a matching header and a readable
\* length, the call having begun inside the buffer.
C26_Witness ==
    /\ Type34Failed
    /\ res.op = "parse_type3_generic"
    /\ res.err = "OutOfBounds"
    /\ HeaderMatched
    /\ res.start > 0
    /\ pos = res.start + 16

\* C27: a failed type2::parse is not atomic: with a p-bit of 1 and fewer
\* than num_bits bits after it the call fails with BufferEnded for the named
\* field and the cursor is exactly one bit past where it began; with no bit
\* at the cursor it fails for the p-bit and the cursor has not moved.
C27_Type2FailureNotAtomic ==
    res.op = "type2_parse" =>
        /\ (Remaining >= 1 /\ buf[res.start + 1] = 1 /\ Remaining - 1 < res.arg) =>
               /\ res.kind = "Err"
               /\ res.err = "BufferEnded"
               /\ res.field = "value"
               /\ pos = res.start + 1
        /\ Remaining < 1 =>
               /\ res.kind = "Err"
               /\ res.err = "BufferEnded"
               /\ pos = res.start

\* The value of a present Type-2 field is cut short by the end of the buffer.
C27_Witness ==
    /\ res.op = "type2_parse"
    /\ res.kind = "Err"
    /\ res.field = "value"
    /\ Remaining >= 2
    /\ buf[res.start + 1] = 1
    /\ pos = res.start + 1

----------------------------------------------------------------------------
(* run_stack (main.rs). The MessageRouter (common/messagerouter.rs) is not  *)
(* part of the sources: of its calls only the effect on the length of the   *)
(* message queue is modelled, and that effect is left open.                 *)

\* Largest number of ticks asked for, and the cap on the ticks of a run
\* that was asked to run forever.
MaxTicks == 3
\* Largest number of messages in the queue.
MaxMsgs == 2
\* After this many deliveries in one tick the handlers submit nothing more.
MaxDeliveries == 2

QueueLens == 0..MaxMsgs

\* A call made on the router, with the value it returned.
RouterCall(call, ret) == [call |-> call, ret |-> ret]

\* The router notes its last two calls and counts its ticks.
Routed(r, call, ret, queue) ==
    [r EXCEPT !.prev = r.last, !.last = RouterCall(call, ret), !.queue = queue]

\* run_stack whose delivery loop runs while the queue is empty.
WhileCondition_Negated(len) == len = 0

\* while router.get_msgqueue_len() > 0
WhileCondition(len) == len > 0

\* if let Some(num_ticks) = num_ticks { if ticks >= num_ticks { break; } }
BreakCondition(ticks, num_ticks) == IsSome(num_ticks) /\ ticks >= num_ticks[1]

\* run_stack(router, num_ticks) has been entered: let mut ticks: usize = 0.
InitStack ==
    /\ build \in { "debug", "release" }
    /\ mode = "fixed"
    /\ buf = <<>>
    /\ res = NoCall("run_stack")
    /\ pos = 0
    /\ out = <<>>
    /\ nwrites = 0
    /\ stack \in { [num_ticks |-> n, ticks |-> 0, pc |-> "tick_all"] :
                       n \in {None} \cup { Some(k) : k \in 0..MaxTicks } }
    /\ router \in { [queue |-> q, prev |-> RouterCall("new", 0),
                     last |-> RouterCall("new", 0),
                     tick_alls |-> 0, tick_ends |-> 0, deliveries |-> 0] :
                       q \in QueueLens }
    /\ NoPdu /\ NoClients /\ NoLogging

\* A step of run_stack leaves everything but the stack and its router alone.
StackStep ==
    UNCHANGED <<bufferVars, res, pduVars, clientVars, loggingVars>>

\* router.tick_all(): the entities may submit messages.
TickAll ==
    /\ stack.pc = "tick_all"
    /\ stack.ticks < MaxTicks
    /\ \E q \in QueueLens :
           router' = [Routed(router, "tick_all", 0, q)
                          EXCEPT !.tick_alls = @ + 1, !.deliveries = 0]
    /\ stack' = [stack EXCEPT !.pc = "while"]
    /\ StackStep

\* router.get_msgqueue_len() > 0
GetMsgqueueLen ==
    /\ stack.pc = "while"
    /\ router' = Routed(router, "get_msgqueue_len", router.queue, router.queue)
    /\ stack' = [stack EXCEPT !.pc = IF WhileCondition(router.queue)
                                     THEN "deliver_all_messages"
                                     ELSE "tick_end"]
    /\ StackStep

\* router.deliver_all_messages(): the handlers may submit messages.
DeliverAllMessages ==
    /\ stack.pc = "deliver_all_messages"
    /\ \E q \in QueueLens :
           /\ router.deliveries + 1 >= MaxDeliveries => q = 0
           /\ router' = [Routed(router, "deliver_all_messages", 0, q)
                             EXCEPT !.deliveries = @ + 1]
    /\ stack' = [stack EXCEPT !.pc = "while"]
    /\ StackStep

\* router.tick_end()
TickEnd ==
    /\ stack.pc = "tick_end"
    /\ \E q \in QueueLens :
           router' = [Routed(router, "tick_end", 0, q) EXCEPT !.tick_ends = @ + 1]
    /\ stack' = [stack EXCEPT !.pc = "count"]
    /\ StackStep

\* ticks += 1, and the test that ends the loop.
CountTick ==
    /\ stack.pc = "count"
    /\ stack' = [stack EXCEPT !.ticks = @ + 1,
                              !.pc = IF BreakCondition(stack.ticks + 1, stack.num_ticks)
                                     THEN "returned"
                                     ELSE "tick_all"]
    /\ UNCHANGED router
    /\ StackStep

NextStack ==
    \/ TickAll
    \/ GetMsgqueueLen
    \/ DeliverAllMessages
    \/ TickEnd
    \/ CountTick

SpecStack == InitStack /\ [][NextStack]_vars

\* C24: run_stack(router, Some(n)) returns after exactly n ticks, for every
\* n >= 0, and run_stack(router, None) never returns.
C24_TickCount ==
    /\ stack.pc = "returned" =>
           /\ IsSome(stack.num_ticks)
           /\ router.tick_alls = stack.num_ticks[1]
           /\ router.tick_ends = stack.num_ticks[1]
    /\ stack.num_ticks = None => stack.pc # "returned"

Follows(call, before) ==
    router.last.call = call => router.prev.call \in before

\* C29: in every iteration tick_all comes first, then deliver_all_messages
\* as long as get_msgqueue_len() > 0, then tick_end; tick_end is never called
\* when the length the loop observed is not 0, and the next tick_all never
\* before the tick_end of the current tick.
C29_OrderWithinTick ==
    /\ Follows("tick_all", {"new", "tick_end"})
    /\ Follows("get_msgqueue_len", {"tick_all", "deliver_all_messages"})
    /\ Follows("deliver_all_messages", {"get_msgqueue_len"})
    /\ Follows("tick_end", {"get_msgqueue_len"})
    /\ router.last.call = "deliver_all_messages" => router.prev.ret > 0
    /\ router.last.call = "tick_end" => router.prev.ret = 0
    /\ router.tick_alls - router.tick_ends \in {0, 1}
    /\ router.tick_alls = router.tick_ends + 1 <=>
           router.last.call \in {"tick_all", "get_msgqueue_len", "deliver_all_messages"}

\* The second tick has ended after messages were delivered twice in it.
C29_Witness ==
    /\ router.last.call = "tick_end"
    /\ router.tick_ends = 2
    /\ router.deliveries = 2

----------------------------------------------------------------------------
(* MmClientMgr (entities/mm/components/client_state.rs)                     *)

\* The SSIs the calls are made with.
MaxSsi == 3
Ssis == 1..MaxSsi

MmClientState == { "Unknown", "Attached", "Detached" }

\* MmClientProperties::new(ssi)
MmClientProperties_new(ssi) == [ssi |-> ssi, state |-> "Unknown"]

\* HashMap::insert and HashMap::remove on the clients map.
Insert(c, ssi, elem) ==
    [k \in DOMAIN c \cup {ssi} |-> IF k = ssi THEN elem ELSE c[k]]
Removed(c, ssi) == [k \in DOMAIN c \ {ssi} |-> c[k]]

\* is_known: self.clients.contains_key(&ssi)
is_known(c, ssi) == ssi \in DOMAIN c

\* fetch_or_create: self.clients.entry(ssi).or_insert_with(..)
fetch_or_create(c, ssi) ==
    IF is_known(c, ssi) THEN c ELSE Insert(c, ssi, MmClientProperties_new(ssi))

\* register keeping the entry the map already has for the ssi.
register_KeepExisting(c, ssi, attached) ==
    IF is_known(c, ssi) THEN c
    ELSE Insert(c, ssi, [ssi |-> ssi,
                         state |-> IF attached THEN "Attached" ELSE "Unknown"])

\* register: builds the element and inserts it, replacing any entry.
register(c, ssi, attached) ==
    Insert(c, ssi, [ssi |-> ssi,
                    state |-> IF attached THEN "Attached" ELSE "Unknown"])

\* MmClientMgr::new()
InitClients ==
    /\ build \in { "debug", "release" }
    /\ mode = "fixed"
    /\ buf = <<>>
    /\ res = NoCall("new")
    /\ pos = 0
    /\ out = <<>>
    /\ nwrites = 0
    /\ clients = <<>>
    /\ NoPdu /\ NoStack /\ NoLogging

\* A call on the manager: the result notes the arguments, the value
\* returned and, in its log, the map as it was before the call.
ClientCall(op, args, ret, c) ==
    /\ res' = [Called(op, args, 0, Ok(ret, 0)) EXCEPT !.log = <<clients>>]
    /\ clients' = c
    /\ UNCHANGED <<bufferVars, pduVars, stackVars, loggingVars>>

FetchOrCreate ==
    \E ssi \in Ssis :
        ClientCall("fetch_or_create", <<ssi>>,
                   <<fetch_or_create(clients, ssi)[ssi]>>,
                   fetch_or_create(clients, ssi))

\* The caller assigns the state through the reference fetch_or_create gave.
FetchOrCreateSetState ==
    \E ssi \in Ssis, s \in MmClientState :
        ClientCall("set_state", <<ssi, s>>, <<>>,
                   Insert(clients, ssi, [ssi |-> ssi, state |-> s]))

IsKnown ==
    \E ssi \in Ssis :
        ClientCall("is_known", <<ssi>>, <<is_known(clients, ssi)>>, clients)

Register ==
    \E ssi \in Ssis, attached \in BOOLEAN :
        ClientCall("register", <<ssi, attached>>, <<>>,
                   register(clients, ssi, attached))

Remove ==
    \E ssi \in Ssis :
        ClientCall("remove", <<ssi>>,
                   IF is_known(clients, ssi) THEN Some(clients[ssi]) ELSE None,
                   Removed(clients, ssi))

NextClients ==
    \/ FetchOrCreate
    \/ FetchOrCreateSetState
    \/ IsKnown
    \/ Register
    \/ Remove

SpecClients == InitClients /\ [][NextClients]_vars

\* The map before the last call, and the ssi the call was made with.
ClientsBefore == res.log[1]
CalledSsi == res.arg[1]

ManagerCalled ==
    res.op \in {"fetch_or_create", "is_known", "register", "remove"}

\* The entries of the other ssis are what they were before the call.
OthersUntouched ==
    \A other \in Ssis \ {CalledSsi} :
        /\ is_known(clients, other) <=> is_known(ClientsBefore, other)
        /\ is_known(clients, other) => clients[other] = ClientsBefore[other]

\* C25: after register(ssi, attached) the ssi is known and its state is
\* Attached when attached is true and Unknown otherwise, whatever was done
\* to the ssi before; after remove(ssi) the ssi is not known;
\* fetch_or_create(ssi) creates an Unknown client only when the ssi is not
\* known and otherwise leaves its state unchanged; no call on an ssi changes
\* the entry of another ssi.
C25_ClientRegistration ==
    ManagerCalled =>
        /\ res.op = "register" =>
               /\ is_known(clients, CalledSsi)
               /\ clients[CalledSsi].state =
                      IF res.arg[2] THEN "Attached" ELSE "Unknown"
        /\ res.op = "remove" => ~is_known(clients, CalledSsi)
        /\ res.op = "fetch_or_create" =>
               /\ is_known(clients, CalledSsi)
               /\ IF is_known(ClientsBefore, CalledSsi)
                  THEN clients[CalledSsi] = ClientsBefore[CalledSsi]
                  ELSE clients[CalledSsi].state = "Unknown"
        /\ OthersUntouched

\* A detached client is registered as not attached while another ssi is
\* attached.
C25_Witness ==
    /\ res.op = "register"
    /\ res.arg[2] = FALSE
    /\ is_known(ClientsBefore, CalledSsi)
    /\ ClientsBefore[CalledSsi].state = "Detached"
    /\ \E other \in Ssis \ {CalledSsi} :
           is_known(clients, other) /\ clients[other].state = "Attached"

----------------------------------------------------------------------------
(* One-time logging initialisation (common/debug.rs). std::sync::Once and   *)
(* tracing_subscriber are libraries: INIT_LOG is incomplete, running or     *)
(* complete (poisoned after a panic of the closure), a caller of call_once  *)
(* that finds it running waits, and init() panics when a global subscriber  *)
(* is already set.                                                          *)

\* The threads that call the setup functions, and the calls each may make.
MaxThreads == 2
MaxCalls == 2

Threads == 1..MaxThreads

\* The arrival number the next call to reach call_once is given.
Max(S) == CHOOSE m \in S : \A k \in S : k <= m
NextTicket == 1 + Max({ threads[t].ticket : t \in Threads })

\* call_once returning at once when another thread is running the closure.
call_once_NotWaiting(once) ==
    CASE once = "incomplete" -> "closure"
      [] once = "poisoned" -> "panicked"
      [] OTHER -> "idle"

\* INIT_LOG.call_once(..): where the caller goes for each state of the Once.
call_once(once) ==
    CASE once = "incomplete" -> "closure"
      [] once = "running" -> "waiting"
      [] once = "poisoned" -> "panicked"
      [] OTHER -> "idle"

\* static INIT_LOG: Once = Once::new(); no global subscriber is set and the
\* threads have made no call.
InitLogging ==
    /\ build \in { "debug", "release" }
    /\ mode = "fixed"
    /\ buf = <<>>
    /\ res = NoCall("new")
    /\ pos = 0
    /\ out = <<>>
    /\ nwrites = 0
    /\ INIT_LOG = "incomplete"
    /\ subscriber = <<>>
    /\ threads = [t \in Threads |->
                    [pc |-> "idle", filter |-> "", calls |-> 0, ticket |-> 0]]
    /\ NoPdu /\ NoStack /\ NoClients

LoggingStep == UNCHANGED <<bufferVars, res, pduVars, stackVars, clientVars>>

\* A thread enters a setup function, which builds its filter and the format
\* layer of setup_logging.
Setup(t, filter) ==
    /\ threads[t].pc = "idle"
    /\ threads[t].calls < MaxCalls
    /\ threads' = [threads EXCEPT ![t].pc = "setup_logging",
                                  ![t].filter = filter,
                                  ![t].calls = @ + 1]
    /\ UNCHANGED <<INIT_LOG, subscriber>>
    /\ LoggingStep

SetupLoggingVerbose == \E t \in Threads : Setup(t, "verbose")
SetupLoggingDefault == \E t \in Threads : Setup(t, "default")

\* The thread reaches INIT_LOG.call_once.
CallOnce ==
    \E t \in Threads :
        /\ threads[t].pc = "setup_logging"
        /\ threads' = [threads EXCEPT ![t].pc = call_once(INIT_LOG),
                                      ![t].ticket = NextTicket]
        /\ INIT_LOG' = IF INIT_LOG = "incomplete" THEN "running" ELSE INIT_LOG
        /\ UNCHANGED subscriber
        /\ LoggingStep

\* The closure: registry().with(fmt_layer).with(filter).init(), after which
\* the Once is complete.
Closure ==
    \E t \in Threads :
        /\ threads[t].pc = "closure"
        /\ IF subscriber = <<>>
           THEN /\ subscriber' = <<[thread |-> t, ticket |-> threads[t].ticket,
                                    filter |-> threads[t].filter]>>
                /\ INIT_LOG' = "complete"
                /\ threads' = [threads EXCEPT ![t].pc = "idle"]
           ELSE /\ INIT_LOG' = "poisoned"
                /\ threads' = [threads EXCEPT ![t].pc = "panicked"]
                /\ UNCHANGED subscriber
        /\ LoggingStep

\* A waiting caller returns when the closure has been run.
Wake ==
    \E t \in Threads :
        /\ threads[t].pc = "waiting"
        /\ INIT_LOG # "running"
        /\ threads' = [threads EXCEPT ![t].pc = IF INIT_LOG = "poisoned"
                                                THEN "panicked" ELSE "idle"]
        /\ UNCHANGED <<INIT_LOG, subscriber>>
        /\ LoggingStep

NextLogging ==
    \/ SetupLoggingVerbose
    \/ SetupLoggingDefault
    \/ CallOnce
    \/ Closure
    \/ Wake

SpecLogging == InitLogging /\ [][NextLogging]_vars

\* The thread has returned from a call of a setup function.
Returned(t) == threads[t].pc = "idle" /\ threads[t].calls > 0

\* C30: for any number of calls of the setup functions from any number of
\* threads in any interleaving, the global subscriber is initialised exactly
\* once, by the first call to reach INIT_LOG.call_once: it is never
\* initialised twice, every call that has returned finds it initialised,
\* the initialisation is that of the first arrival, and no call panics.
C30_InitialisedOnce ==
    /\ Len(subscriber) <= 1
    /\ \A t \in Threads :
           /\ Returned(t) => Len(subscriber) = 1
           /\ threads[t].pc # "panicked"
    /\ subscriber # <<>> =>
           /\ subscriber[1].ticket = 1
           /\ INIT_LOG = "complete"

\* A thread has returned from a second call with another filter after the
\* other thread initialised the subscriber.
C30_Witness ==
    /\ Len(subscriber) = 1
    /\ \E t \in Threads :
           /\ Returned(t)
           /\ threads[t].calls = 2
           /\ threads[t].ticket > 1
           /\ subscriber[1].thread # t
           /\ subscriber[1].filter # threads[t].filter

====
